---------------------------- MODULE Spec2Model ----------------------------
(***************************************************************************)
(* Model of the control core of esp32-mipidsi-clock:                       *)
(*   - the Action Channel (controller.rs, static ACTION), fed by           *)
(*     send_action,                                                        *)
(*   - Controller.run / Controller.process_action,                         *)
(*   - the Refresh Signal (controller.rs, REFRESH_SIGNAL) and              *)
(*     refresh_screen,                                                     *)
(*   - the render loop of bin/ui_esp32_ds1307_st7789.rs.                   *)
(* All tasks run on one cooperative executor: a task that runs keeps the   *)
(* processor until its next await, so another task takes a step only while *)
(* the Controller and the render loop are both suspended.                  *)
(* Angles are integers in hundredths of a degree, times are integer        *)
(* seconds.                                                                *)
(***************************************************************************)
EXTENDS Integers, Sequences, FiniteSets, TLC

(***************************************************************************)
(* Bounds of the model.                                                    *)
(***************************************************************************)
\* Number of send_action calls explored when every producer sends.
MaxSends == 3
\* Number of send_action calls explored when only the wifi poller sends.
MaxFloodSends == 5
\* Number of send_action calls explored under the fair scheduling.
MaxFairSends == 2
\* Number of UpdateTime actions explored when only clock readings are sent.
MaxCacheSends == 3
\* Number of StartCountDown actions explored when only countdowns are sent.
MaxCountDownSends == 2
\* Number of one-second ticks fed in a row: a full day.
MaxTicks == 86400
\* Number of polls NtpClient.run makes in each of its two waiting loops.
MaxNtpPolls == 2
\* Number of time requests NtpClient.run makes.
MaxNtpRequests == 3
\* Number of times the monotonic clock is let advance around a Timestamp.
MaxElapses == 3
\* Number of successful syncs that replace the Timestamp.
MaxSyncs == 2
\* Number of send_action calls in the runs that restart a countdown.
MaxRestartSends == 2

(***************************************************************************)
(* Program constants.                                                      *)
(***************************************************************************)
\* Channel<_, Action, 4> of the mcu build.
ActionCapMcu == 4
\* Channel<_, Action, 2> of the simulator build.
ActionCapSimulator == 2
\* Channel<_, Action, 1>: RefreshScreenChannelType.
RefreshCap == 1
\* Validity window of the cached sky, in seconds.
SkyValiditySecs == 60
\* Validity window of the cached moon, in seconds.
MoonValiditySecs == 3600
\* Duration the button task gives to StartCountDown.
ButtonCountDownSecs == 120

Builds == {"mcu", "simulator"}

ActionCap(b) == IF b = "mcu" THEN ActionCapMcu ELSE ActionCapSimulator

(***************************************************************************)
(* enum Action.  Every variant is a record of the same shape so that any   *)
(* two actions can be compared.                                            *)
(***************************************************************************)
NoAction ==
    [kind |-> "None", flag |-> FALSE, wifi |-> "NA", tod |-> "NA",
     phase |-> 0, illum |-> 0, time |-> 0, dur |-> 0, subs |-> <<>>]

MultipleActions(actions) ==
    [NoAction EXCEPT !.kind = "MultipleActions", !.subs = actions]

HardwareUserBtnPressed(is_pressed) ==
    [NoAction EXCEPT !.kind = "HardwareUserBtnPressed", !.flag = is_pressed]

TouchscreenToggleBtn(on) ==
    [NoAction EXCEPT !.kind = "TouchscreenToggleBtn", !.flag = on]

WifiStateUpdate(wifi_state) ==
    [NoAction EXCEPT !.kind = "WifiStateUpdate", !.wifi = wifi_state]

\* moon.phase and moon.illumination are carried in hundredths.
TimeOfDayUpdate(tod, phase, illum) ==
    [NoAction EXCEPT !.kind = "TimeOfDayUpdate", !.tod = tod,
                     !.phase = phase, !.illum = illum]

UpdateTime(current_time) ==
    [NoAction EXCEPT !.kind = "UpdateTime", !.time = current_time]

ShowMonster(monster) ==
    [NoAction EXCEPT !.kind = "ShowMonster", !.flag = monster]

StartCountDown(current_time, duration) ==
    [NoAction EXCEPT !.kind = "StartCountDown", !.time = current_time,
                     !.dur = duration]

IsComposite(a) == a.kind = "MultipleActions"


(***************************************************************************)
(* embassy_sync Channel, as the code uses it: a bounded FIFO queue.        *)
(***************************************************************************)
\* Channel::try_send: Ok and enqueued at the back, or Err(TrySendError::Full).
try_send(ch, cap, m) ==
    IF Len(ch) < cap THEN [ok |-> TRUE, ch |-> Append(ch, m)]
                     ELSE [ok |-> FALSE, ch |-> ch]

\* Channel::receive, once a message is there: the front message leaves.
receive(ch) == [msg |-> Head(ch), ch |-> Tail(ch)]

\* Channel::clear.
clear(ch) == <<>>

(***************************************************************************)
(* sky.rs: the SKY table (angles in hundredths of a degree) and            *)
(* get_slint_gradient.  Table indices are 0-based as in the code; entry i  *)
(* of the code is element i + 1 of the sequences.                          *)
(***************************************************************************)
SkyStart ==
    << -27000, -1000, -800, -600, -400, -200, 0, 200, 400, 600, 2000,
       8000, 150, 100, 0, -400, -450, -500, -550, -600, -650, -800 >>

SkyEnd ==
    << -1000, -800, -600, -400, -200, 0, 200, 400, 600, 2000, 8000,
       150, 100, 50, -400, -450, -500, -550, -600, -650, -800, -27000 >>

SkyMomentOf ==
    << "NIGHT", "DAWN", "DAWN", "DAWN", "DAWN", "DAWN", "SUNRISE", "SUNRISE",
       "SUNRISE", "MORNING", "MORNING", "AFTERNOON", "SUNSET", "SUNSET",
       "SUNSET", "SUNSET", "DUSK", "DUSK", "DUSK", "DUSK", "DUSK", "NIGHT" >>

\* gradient.start and gradient.end of the entries, as written in the table.
SkyGradientStart ==
    << "#0C0A18", "#1E1E2A", "#3A3A52", "#505074", "#8A76AB", "#CD82A0",
       "#E5AED0", "#EBB2B1", "#B0B7EB", "#94DFFF", "#67D1FB", "#1E528E",
       "#5B7983", "#9DA671", "#E9CE5D", "#B26339", "#491C09", "#341505",
       "#381508", "#4A1D06", "#0C0A18", "#0C0A18" >>

SkyGradientEnd ==
    << "#020111", "#020111", "#020111", "#232331", "#444463", "#504F73",
       "#777BBF", "#8AADD8", "#95C7F8", "#B4E9FF", "#9BE2FE", "#2B8BBD",
       "#236FA7", "#1F528E", "#2B5A8B", "#264D75", "#25414F", "#071B26",
       "#010A10", "#090401", "#020111", "#020111" >>

SkyLen == Len(SkyStart)

\* SKY.iter().position(|s| s.start_angle > angle): 0-based, -1 for None.
PositionForward(angle) ==
    LET hits == {i \in 0..(SkyLen - 1) : SkyStart[i + 1] > angle}
    IN  IF hits = {} THEN -1
        ELSE CHOOSE i \in hits : \A j \in hits : i <= j

\* SKY.iter().rev().position(|s| s.start_angle > angle): 0-based position in
\* the reversed table, -1 for None.
PositionReverse(angle) ==
    LET hits == {i \in 0..(SkyLen - 1) : SkyStart[SkyLen - i] > angle}
    IN  IF hits = {} THEN -1
        ELSE CHOOSE i \in hits : \A j \in hits : i <= j

\* Mutant of SkyIdx: the reverse search is mapped back one entry too far.
SkyIdxOffByOne(angle, azimuth_gt_180) ==
    IF azimuth_gt_180
    THEN LET c == PositionReverse(angle)
         IN  IF c = -1 THEN -1 ELSE SkyLen - c
    ELSE LET c == PositionForward(angle)
         IN  IF c <= 0 THEN -1 ELSE c - 1

\* Mutant of SkyIdx: both sides of the sky use the forward search.
SkyIdxForwardOnly(angle, azimuth_gt_180) ==
    LET c == PositionForward(angle)
    IN  IF c <= 0 THEN -1 ELSE c - 1

\* idx of get_slint_gradient; -1 when the search or the usize arithmetic
\* panics.
SkyIdx(angle, azimuth_gt_180) ==
    IF azimuth_gt_180
    THEN LET c == PositionReverse(angle)
         IN  IF c = -1 THEN -1 ELSE SkyLen - 1 - c
    ELSE LET c == PositionForward(angle)
         IN  IF c <= 0 THEN -1 ELSE c - 1

\* Mutant of TimeOfDayOf: dusk already counts as night.
TimeOfDayOfDuskIsNight(moment) ==
    CASE moment \in {"NIGHT", "DUSK"} -> "NIGHT"
      [] moment \in {"DAWN", "SUNRISE", "SUNSET"} -> "TWILIGHT"
      [] moment \in {"MORNING", "AFTERNOON"} -> "DAY"

\* match current_sky.moment { ... } of get_slint_gradient.
TimeOfDayOf(moment) ==
    CASE moment = "NIGHT" -> "NIGHT"
      [] moment \in {"DAWN", "SUNRISE", "SUNSET", "DUSK"} -> "TWILIGHT"
      [] moment \in {"MORNING", "AFTERNOON"} -> "DAY"

\* The denominator of the night factor, (-8.0 - 0.5) degrees negated, in
\* hundredths of a degree.
NightFactorDen == 850

\* Mutant of NightFactorNum: the quotient is not clamped.
NightFactorNumUnclamped(angle) == 50 - angle

\* ((angle - 0.5) / (-8.0 - 0.5)).clamp(0.0, 1.0), as a numerator over
\* NightFactorDen.
NightFactorNum(angle) ==
    LET raw == 50 - angle
    IN  IF raw < 0 THEN 0 ELSE IF raw > NightFactorDen THEN NightFactorDen ELSE raw

\* position_in_interval < 0.5, for the segment start..end (end /= start).
BeforeMidpoint(angle, start, end) ==
    IF end > start THEN 2 * (angle - start) < (end - start)
                   ELSE 2 * (angle - start) > (end - start)

\* Mutant of NeighbourIdx: the neighbour is always the next entry.
NeighbourIdxAlwaysNext(angle, azimuth_gt_180) ==
    LET idx == SkyIdx(angle, azimuth_gt_180)
    IN  IF idx = -1 \/ idx > SkyLen - 1 THEN -1 ELSE idx + 1

\* The index of the second entry get_slint_gradient mixes SKY[idx] with:
\* idx - 1 when position_in_interval < 0.5, idx + 1 otherwise; -1 when the
\* lookup already failed.  The result may lie outside the table.
NeighbourIdx(angle, azimuth_gt_180) ==
    LET idx == SkyIdx(angle, azimuth_gt_180)
    IN  IF idx = -1 \/ idx > SkyLen - 1 THEN -1
        ELSE IF BeforeMidpoint(angle, SkyStart[idx + 1], SkyEnd[idx + 1])
             THEN idx - 1
             ELSE idx + 1

\* Sky::midle_angle of the 0-based entry i, doubled to stay an integer:
\* 2 * (start_angle + (end_angle - start_angle) / 2.0).
MidleAngle2(i) == SkyStart[i + 1] + SkyEnd[i + 1]

\* mix_factor of get_slint_gradient as numerator and denominator (each
\* doubled): (angle - lower_sky.midle_angle()) over
\* (upper_sky.midle_angle() - lower_sky.midle_angle()), where the neighbour
\* is lower_sky before the midpoint of SKY[idx] and upper_sky after it.
\* 0 over 0 when an index is outside the table.
MixFactor(angle, azimuth_gt_180) ==
    LET idx == SkyIdx(angle, azimuth_gt_180)
        n == NeighbourIdx(angle, azimuth_gt_180)
        upper == IF n < idx THEN idx ELSE n
        lower == IF n < idx THEN n ELSE idx
    IN  IF idx = -1 \/ n \notin 0..(SkyLen - 1)
        THEN [num |-> 0, den |-> 0]
        ELSE [num |-> 2 * angle - MidleAngle2(lower),
              den |-> MidleAngle2(upper) - MidleAngle2(lower)]

\* get_slint_gradient, from the solar elevation and the side of the sky.
\* panic marks an unwrap() on None or an index outside the table.
get_slint_gradient(angle, azimuth_gt_180) ==
    LET idx == SkyIdx(angle, azimuth_gt_180)
        before == BeforeMidpoint(angle, SkyStart[idx + 1], SkyEnd[idx + 1])
        upper == IF before THEN idx ELSE idx + 1
        lower == IF before THEN idx - 1 ELSE idx
        panics == \/ idx = -1
                  \/ idx > SkyLen - 1
                  \/ lower < 0
                  \/ upper > SkyLen - 1
    IN  IF panics
        THEN [panic |-> TRUE, tod |-> "NA", night_factor |-> 0,
              brush |-> [angle |-> 0, upper |-> 0, lower |-> 0, at |-> 0]]
        ELSE [panic |-> FALSE,
              tod |-> TimeOfDayOf(SkyMomentOf[idx + 1]),
              night_factor |-> NightFactorNum(angle),
              brush |-> [angle |-> IF azimuth_gt_180 THEN 27000 + angle
                                                     ELSE 9000 + angle,
                         upper |-> upper, lower |-> lower, at |-> angle]]

(***************************************************************************)
(* The sun and the local hour of a timestamp.  spa::solar_position is an   *)
(* external crate: its result at the fixed Paris coordinates is modelled   *)
(* as a daily triangle wave, lowest at 00:00 UTC and highest at 12:00 UTC, *)
(* with the sun past azimuth 180 degrees after 12:00 UTC.                  *)
(***************************************************************************)
SecsPerDay == 86400

\* Largest solar elevation at the Paris latitude, in hundredths of a degree.
SolarAmplitude == 6400

Abs(x) == IF x < 0 THEN -x ELSE x

\* 90.0 - pos.zenith_angle.
SolarElevation(t) ==
    LET s == t % SecsPerDay
    IN  SolarAmplitude
          - (Abs(s - SecsPerDay \div 2) * (2 * SolarAmplitude)) \div (SecsPerDay \div 2)

\* pos.azimuth > 180.0.
SolarAzimuthGt180(t) == (t % SecsPerDay) > SecsPerDay \div 2

\* Offset of Europe/Paris from UTC outside daylight saving time, in seconds.
ParisOffsetSecs == 3600

\* current_time.with_timezone(&Paris).hour().
ParisHour(t) == ((t + ParisOffsetSecs) \div 3600) % 24

(***************************************************************************)
(* moon.rs, in hundredths.  f32 rounding is not modelled.                  *)
(***************************************************************************)
\* (ORBIT_OFFSET - 2440587.5) days, in seconds.
OrbitOffsetSecs == 947182464
\* ORBIT_PERIOD days, in seconds.
OrbitPeriodSecs == 2551443

\* Integer division truncating toward zero, as f32 fract() keeps the sign.
TruncDiv(a, b) == IF a >= 0 THEN a \div b ELSE -((-a) \div b)
TruncRem(a, b) == a - b * TruncDiv(a, b)

\* phase(julian_date(time)): ((jd - ORBIT_OFFSET) / ORBIT_PERIOD).fract().
MoonPhase(t) ==
    TruncDiv(TruncRem(t - OrbitOffsetSecs, OrbitPeriodSecs) * 100, OrbitPeriodSecs)

\* age of Moon::new, phase * ORBIT_PERIOD, in seconds.
MoonAge(t) == TruncRem(t - OrbitOffsetSecs, OrbitPeriodSecs)

\* Moon::is_waning: self.age < 0.5, the age being in days (here in seconds).
is_waning(age) == 2 * age < SecsPerDay

\* Moon::is_waxing: self.age > 0.5.
is_waxing(age) == 2 * age > SecsPerDay

\* illumination(phase) = 0.5 * (1 - cos(TAU * phase)) = sin^2(PI * phase),
\* approximated by the cubic 3x^2 - 2x^3 at x = 2 * min(|p|, 1 - |p|).
MoonIllumination(phase) ==
    LET p == Abs(phase)
        h == IF p > 50 THEN 100 - p ELSE p
        x == 2 * h
    IN  (3 * x * x * 100 - 2 * x * x * x) \div 10000

\* The x coordinate of the shadow circle that build_image (and the
\* TimeOfDayUpdate arm) masks the moon with, in hundredths of a pixel.
MoonShadowX(phase, illum) ==
    IF phase > 50 THEN 34 * illum + 1700 ELSE 1700 - 34 * illum

\* Moon::new(time).build_image(): the image is determined by its shadow.
MoonImage(phase, illum) == [shadow_x |-> MoonShadowX(phase, illum)]

NoImage == [shadow_x |-> -1]

(***************************************************************************)
(* ntp.rs: Timestamp, in microseconds.  The embassy tick is taken to be a  *)
(* microsecond, so that Duration::from_micros keeps its argument.          *)
(***************************************************************************)
\* Timestamp::new(offset).
TimestampNew(offset) == [duration |-> 0, offset |-> offset]

\* Mutant of sec_fraction_nanos: the quotient is rounded up instead of truncated.
sec_fraction_nanos_ceil(f) ==
    f.hi * 1953125 + f.mid * 953
      + (f.mid * 1381 + f.lo * 476 + (f.lo * 3429 + 4095) \div 4096 + 2047) \div 2048

\* ntp.rs l.120: (time.sec_fraction() as u64 * 1_000_000_000 / 4_294_967_296) as u32.
\* The 32-bit fraction is carried as three limbs, f = hi * 2^23 + mid * 2^12 + lo
\* with hi < 2^9, mid < 2^11, lo < 2^12, and the 64-bit product and truncating
\* division are carried out limb by limb: 10^9 / 2^32 = 5^9 / 2^23,
\* 5^9 = 953 * 2^11 + 1381 = 476 * 2^12 + 3429.  The u64 product cannot wrap
\* (f * 10^9 < 2^32 * 2^30) and the quotient is below 2^32, so the casts are exact.
sec_fraction_nanos(f) ==
    f.hi * 1953125 + f.mid * 953
      + (f.mid * 1381 + f.lo * 476 + (f.lo * 3429) \div 4096) \div 2048

\* Timestamp::init at the monotonic instant now: self.offset +
\* TimeDelta::milliseconds(Instant::now().as_millis()), as microseconds.
TimestampInit(ts, now) ==
    [ts EXCEPT !.duration = ts.offset + 1000 * (now \div 1000)]

\* Mutant of timestamp_sec: the seconds are rounded to the nearest.
timestamp_sec_rounded(ts) == (ts.duration + 500000) \div 1000000

\* self.duration.as_secs()
timestamp_sec(ts) == ts.duration \div 1000000

\* self.duration.as_micros() - self.duration.as_secs() * 1000000
timestamp_subsec_micros(ts) == ts.duration - (ts.duration \div 1000000) * 1000000

\* NtpClient::get_date_time: init() on a clone of the context, then
\* DateTime::from_timestamp(timestamp_sec(), timestamp_subsec_micros() * 1000).
get_date_time(ts, now) ==
    LET c == TimestampInit(ts, now)
    IN  timestamp_sec(c) * 1000000 + timestamp_subsec_micros(c)

(***************************************************************************)
(* Inputs: the actions the producers send.                                 *)
(***************************************************************************)
\* Wall-clock readings the producers see (2023-11-15 10:00:00 UTC).
Times == {1700042400}

\* update_timer: MultipleActions(vec![ShowMonster(visible), UpdateTime(t)]).
TickActions == {MultipleActions(<<ShowMonster(TRUE), UpdateTime(t)>>) : t \in Times}

\* wifi_status_task.
WifiActions == {WifiStateUpdate("OK")}

\* Any other caller of the public send_action: the remaining variants (the
\* button task's StartCountDown(current_time, 120) among them), in a
\* composite that holds a composite.
OtherActions ==
    {MultipleActions(<<MultipleActions(<<HardwareUserBtnPressed(TRUE),
                                         TimeOfDayUpdate("NIGHT", 75, 50)>>),
                       StartCountDown(t, ButtonCountDownSecs),
                       TouchscreenToggleBtn(TRUE)>>) : t \in Times}

\* What wifi_status_task sends while the link comes up.
WifiFlood == {WifiStateUpdate("STARTING"), WifiStateUpdate("LINKUP")}

ActionInputs == TickActions \cup WifiActions \cup OtherActions

\* Clock readings around 2023-11-15 05:37:30 UTC (the sun 4 degrees under the
\* horizon and rising): a second less than the sky's validity apart, exactly
\* it, and the same for the moon's.  The clock may be set back between two
\* readings (update_rtc_with_ntp), so they come in any order.
CacheTimes == {1700026650 + d : d \in {0, 59, 60, 3599, 3600}}

\* StartCountDown(current_time, duration): duration is a u8, of which the
\* ends of the range, the button task's 120 and 1 are taken; the start
\* times are the epoch, a second before it and a day of 2023.
CountDownActions ==
    {StartCountDown(t, d) : t \in {-1, 0, 1700042400}, d \in {0, 1, ButtonCountDownSecs, 255}}

\* A countdown of two minutes that is started again, for 255 s, half a
\* minute later, with every other kind of action in between; and a
\* countdown of one second started on its own a minute after the first.
RestartActions ==
    {MultipleActions(<< StartCountDown(1700042400, ButtonCountDownSecs),
                        HardwareUserBtnPressed(TRUE),
                        TouchscreenToggleBtn(TRUE),
                        WifiStateUpdate("OK"),
                        UpdateTime(1700042430),
                        ShowMonster(TRUE),
                        TimeOfDayUpdate("NIGHT", 75, 50),
                        StartCountDown(1700042430, 255) >>),
     StartCountDown(1700042460, 1)}

\* The wall clock at the first tick of a day of ticks: 2023-11-15 12:00:30
\* UTC, half a minute past noon.
DayStart == 1700049630

\* Timer::after(Duration::from_millis(500)) of the two waiting loops of
\* NtpClient.run, and the seconds between two of its time requests.
NtpPollMillis == 500
NtpIntervalSecs == 900

\* NtpClient.run when its task is spawned: link and config are what the
\* last poll of the link and of the IPv4 configuration saw, offset is the
\* reference time of the context, in milliseconds.
NtpSpawned ==
    [pc |-> "link", clock |-> 0, link_polls |-> 0, config_polls |-> 0,
     link |-> FALSE, config |-> FALSE,
     dns |-> "none", requested |-> <<>>, results |-> <<>>, errors |-> 0,
     first |-> TRUE, context_set |-> FALSE, offset |-> 0]

\* Action::UpdateTime(current_time) alone, as the ticks carry it.
CacheActions == {UpdateTime(t) : t \in CacheTimes}

(***************************************************************************)
(* State.                                                                  *)
(***************************************************************************)
VARIABLES
    build,          \* the cargo feature the program was built with
    ACTION_CHANNEL, \* static ACTION: queue of [id, a]; id is the acceptance number
    REFRESH_SIGNAL, \* static REFRESH_SIGNAL: queue of actions
    ctrlPc,         \* Controller.run: "start", "loop" (at the receive call),
                    \* "receive" (suspended in it), "process", "panicked"
    root,           \* the action Controller.run is processing, as [id, a]
    stack,          \* the nested process_action calls, outermost first
    ret,            \* what the outermost process_action returned last
    globals,        \* the UI-facing fields (slint Globals)
    current_sky,    \* Controller.current_sky
    CURRENT_MOON,   \* static CURRENT_MOON
    renderPc,       \* render_loop: "spawned", "draw", and the three waits
                    \* "select", "refresh", "timer"
    wokenBy,        \* what ended the render loop's last wait
    pause,          \* milliseconds of the frame-pacing Timer the render loop
                    \* is suspended in, 0 when it is in none
    unseenWrite,    \* process_action wrote a UI field no repaint pass has read
    sent,           \* number of send_action calls so far
    accepted,       \* number of actions the Action Channel accepted so far
    received,       \* number of actions Controller.run received so far
    applied,        \* leaf arms run for the action being processed, in order
    fullSeen,       \* a Refresh Signal publish failed for the action being processed
    sky_call,       \* a call of get_slint_gradient on its own: the sun's
                    \* position given to it and what it came to
    ntp,            \* NtpClient.run: where it is, its clock, what it got
    timestamp,      \* the Timestamp of the client's context, the monotonic
                    \* clock, and what was last read from the Timestamp
    moon_call       \* a call of Moon::new on its own: the time given to it
                    \* and what it came to

vars ==
    << build, ACTION_CHANNEL, REFRESH_SIGNAL, ctrlPc, root, stack, ret, globals,
       current_sky, CURRENT_MOON, renderPc, wokenBy, pause, unseenWrite, sent,
       accepted, received, applied, fullSeen, sky_call, ntp, timestamp, moon_call >>

\* No action is being processed.
NoRoot == [id |-> 0, a |-> NoAction]

\* Option::None of Option<MoonAndTime>.
NoneVersion == [some |-> FALSE, version |-> 0]
SomeVersion(t) == [some |-> TRUE, version |-> t]

\* The UI fields before any setter ran.
DefaultGlobals ==
    [countdown |-> -1, countdown_total_duration |-> -1, wifi_state |-> "DEFAULT",
     current_time |-> -1, night_factor |-> -1, time_of_day |-> "DEFAULT",
     sky_brush |-> [angle |-> 0, upper |-> 0, lower |-> 0, at |-> 0],
     monster_position |-> [env |-> "DEFAULT", x |-> 0, y |-> 0],
     monster_visibility |-> FALSE, moon |-> NoImage]

\* No call of Moon::new on its own is made.
NoMoonCall ==
    [time |-> 0, done |-> FALSE, phase |-> 0, age |-> 0, illumination |-> 0,
     waning |-> FALSE, waxing |-> FALSE]

\* The monotonic clock at boot and the Timestamp NtpClient::new puts in the
\* context, Timestamp::new(DateTime::from_timestamp_nanos(0)); nothing was
\* read from it yet.  Times are in microseconds.
TimestampAtBoot ==
    [mono |-> 0, elapses |-> 0, syncs |-> 0, ts |-> TimestampNew(0), m0 |-> 0,
     init_at |-> -1, sec |-> -1, subsec |-> -1, reported |-> -1, reported_at |-> -1,
     fraction |-> [hi |-> 0, mid |-> 0, lo |-> 0], nanos |-> -1]

\* No call of get_slint_gradient on its own is made.
NoSkyCall ==
    [angle |-> 0, azimuth_gt_180 |-> FALSE, done |-> FALSE, idx |-> -1,
     neighbour |-> -1, mix_factor |-> [num |-> 0, den |-> 0], panic |-> FALSE,
     tod |-> "NA", night_factor |-> 0]

Init ==
    /\ timestamp = TimestampAtBoot
    /\ moon_call = NoMoonCall
    /\ ntp = NtpSpawned
    /\ sky_call = NoSkyCall
    /\ build \in Builds
    /\ ACTION_CHANNEL = <<>>
    /\ REFRESH_SIGNAL = <<>>
    /\ ctrlPc = "start"
    /\ root = NoRoot
    /\ stack = <<>>
    /\ ret = "none"
    /\ globals = DefaultGlobals
    /\ current_sky = NoneVersion
    /\ CURRENT_MOON = NoneVersion
    /\ renderPc = "spawned"
    /\ wokenBy = "none"
    /\ pause = 0
    /\ unseenWrite = FALSE
    /\ sent = 0
    /\ accepted = 0
    /\ received = 0
    /\ applied = <<>>
    /\ fullSeen = FALSE

(***************************************************************************)
(* Cooperative scheduling.                                                 *)
(***************************************************************************)
\* Mutant of ProcessActionSteps: the match runs before the 1 ms Timer.
ProcessActionStepsSleepLast == << "try_send", "dispatch", "timer" >>

\* The statements of process_action in program order: the publish on the
\* Refresh Signal, Timer::after(1 ms), the match on the action.
ProcessActionSteps == << "try_send", "timer", "dispatch" >>

\* Position of a frame whose body is finished (it returns Ok(())).
ReturnPos == Len(ProcessActionSteps) + 1

Top == stack[Len(stack)]

AtStep(name) ==
    /\ ctrlPc = "process"
    /\ stack /= <<>>
    /\ Top.pos < ReturnPos
    /\ ProcessActionSteps[Top.pos] = name

\* The Controller (the main task) holds the processor: it is neither
\* suspended in ACTION.receive() nor in the 1 ms Timer.
CtrlRunning ==
    \/ ctrlPc \in {"start", "loop"}
    \/ ctrlPc = "process" /\ ~AtStep("timer")

\* The render loop holds the processor: it was woken and has not reached
\* its next await.
RenderRunning == renderPc = "draw"

\* No task runs: the executor may poll any task that is ready.
Idle == ~CtrlRunning /\ ~RenderRunning

(***************************************************************************)
(* send_action.                                                            *)
(***************************************************************************)
\* Mutant of send_action: a full channel drops its oldest message to take
\* the new one.
send_action_drop_oldest(ch, cap, m) ==
    IF Len(ch) < cap THEN Append(ch, m) ELSE Append(Tail(ch), m)

\* Mutant of send_action: the new message goes to the front of the queue.
send_action_front(ch, cap, m) ==
    IF Len(ch) < cap THEN << m >> \o ch ELSE ch

\* The Action Channel after send_action(m): ACTION.try_send(m), whose Err
\* arm only logs a warning.
send_action(ch, cap, m) == try_send(ch, cap, m).ch

\* A producer calls send_action(a), for at most limit calls in all.  The
\* call never suspends.
Send(a, limit) ==
    /\ Idle
    /\ sent < limit
    /\ sent' = sent + 1
    /\ ACTION_CHANNEL' =
          send_action(ACTION_CHANNEL, ActionCap(build), [id |-> accepted + 1, a |-> a])
    /\ accepted' = IF ACTION_CHANNEL' = ACTION_CHANNEL THEN accepted ELSE accepted + 1
    /\ UNCHANGED << timestamp, moon_call, ntp, sky_call, build, REFRESH_SIGNAL, ctrlPc, root, stack, ret, globals,
                    current_sky, CURRENT_MOON, renderPc, wokenBy, pause, unseenWrite,
                    received, applied, fullSeen >>

\* update_timer, wifi_status_task, the button task, or any other caller.
SendAction == \E a \in ActionInputs : Send(a, MaxSends)

\* Any caller, in the runs explored under the fair scheduling.
SendActionFair == \E a \in ActionInputs : Send(a, MaxFairSends)

\* A clock reading is sent.
SendUpdateTime == \E a \in CacheActions : Send(a, MaxCacheSends)

\* A countdown is started.
SendStartCountDown == \E a \in CountDownActions : Send(a, MaxCountDownSends)

\* The button task and the other producers, while a countdown runs.
SendRestart == \E a \in RestartActions : Send(a, MaxRestartSends)

\* update_timer, one second after its last tick: the Controller has long
\* finished the tick before and waits for this one.
Tick ==
    /\ ctrlPc = "receive"
    /\ ACTION_CHANNEL = <<>>
    /\ Send(UpdateTime(DayStart + sent), MaxTicks)

\* wifi_status_task alone, which polls every 50 ms until the network
\* configuration is up.
SendWifiState == \E a \in WifiFlood : Send(a, MaxFloodSends)

(***************************************************************************)
(* Controller.run and Controller.process_action.                           *)
(***************************************************************************)
\* A call of process_action(a) at its first statement.  sig and slept record
\* what the call has done so far.
NewFrame(a) == [action |-> a, pos |-> 1, i |-> 1, sig |-> "none", slept |-> FALSE]

SetTop(f) == [stack EXCEPT ![Len(stack)] = f]

\* Controller.run up to its loop: set_action_event_handlers().
CtrlStart ==
    /\ ctrlPc = "start"
    /\ globals' = [globals EXCEPT !.countdown = 0]
    /\ ctrlPc' = "loop"
    /\ UNCHANGED << timestamp, moon_call, ntp, sky_call, build, ACTION_CHANNEL, REFRESH_SIGNAL, root, stack, ret,
                    current_sky, CURRENT_MOON, renderPc, wokenBy, pause, unseenWrite,
                    sent, accepted, received, applied, fullSeen >>

\* ACTION.receive().await finds the channel empty: the Controller suspends.
CtrlAwaitAction ==
    /\ ctrlPc = "loop"
    /\ ACTION_CHANNEL = <<>>
    /\ ctrlPc' = "receive"
    /\ UNCHANGED << timestamp, moon_call, ntp, sky_call, build, ACTION_CHANNEL, REFRESH_SIGNAL, root, stack, ret, globals,
                    current_sky, CURRENT_MOON, renderPc, wokenBy, pause, unseenWrite,
                    sent, accepted, received, applied, fullSeen >>

\* let action = ACTION.receive().await; self.process_action(action): at
\* once when a message is there, or when the suspended Controller is polled
\* again.
CtrlReceive ==
    /\ \/ ctrlPc = "loop"
       \/ ctrlPc = "receive" /\ ~RenderRunning
    /\ ACTION_CHANNEL /= <<>>
    /\ LET r == receive(ACTION_CHANNEL)
       IN  /\ ACTION_CHANNEL' = r.ch
           /\ root' = r.msg
           /\ stack' = << NewFrame(r.msg.a) >>
    /\ ctrlPc' = "process"
    /\ received' = received + 1
    /\ UNCHANGED << timestamp, moon_call, ntp, sky_call, build, REFRESH_SIGNAL, ret, globals, current_sky, CURRENT_MOON,
                    renderPc, wokenBy, pause, unseenWrite, sent, accepted, applied,
                    fullSeen >>

\* Mutant of RefreshPublish: the publish replaces what is pending, as
\* Signal::signal would.
RefreshPublishOverwrite(sig, a) == [ok |-> TRUE, ch |-> << a >>]

\* REFRESH_SIGNAL.try_send(action.clone())
RefreshPublish(sig, a) == try_send(sig, RefreshCap, a)

\* Mutant of AfterPublish: the Err arm returns from process_action.
AfterPublishReturnOnFull(f, ok) ==
    IF ok THEN [f EXCEPT !.pos = f.pos + 1, !.sig = "ok"]
          ELSE [f EXCEPT !.pos = ReturnPos, !.sig = "full"]

\* match REFRESH_SIGNAL.try_send(..) { Ok(_) => log, Err(_) => log }: both
\* arms go on to the next statement.
AfterPublish(f, ok) ==
    [f EXCEPT !.pos = f.pos + 1, !.sig = IF ok THEN "ok" ELSE "full"]

CtrlPublish ==
    /\ AtStep("try_send")
    /\ LET r == RefreshPublish(REFRESH_SIGNAL, Top.action)
       IN  /\ REFRESH_SIGNAL' = r.ch
           /\ stack' = SetTop(AfterPublish(Top, r.ok))
           /\ fullSeen' = (fullSeen \/ ~r.ok)
    /\ UNCHANGED << timestamp, moon_call, ntp, sky_call, build, ACTION_CHANNEL, ctrlPc, root, ret, globals, current_sky,
                    CURRENT_MOON, renderPc, wokenBy, pause, unseenWrite, sent, accepted,
                    received, applied >>

\* Timer::after(Duration::from_millis(1)).await has elapsed.
CtrlTimer ==
    /\ AtStep("timer")
    /\ ~RenderRunning
    /\ stack' = SetTop([Top EXCEPT !.pos = Top.pos + 1, !.slept = TRUE])
    /\ UNCHANGED << timestamp, moon_call, ntp, sky_call, build, ACTION_CHANNEL, REFRESH_SIGNAL, ctrlPc, root, ret, globals,
                    current_sky, CURRENT_MOON, renderPc, wokenBy, pause, unseenWrite, sent,
                    accepted, received, applied, fullSeen >>

\* A leaf arm of the match ran to its end: the call goes on to return.
LeafDone(kind) ==
    /\ AtStep("dispatch")
    /\ Top.action.kind = kind
    /\ stack' = SetTop([Top EXCEPT !.pos = Top.pos + 1])
    /\ applied' = Append(applied, Top.action)

\* Action::HardwareUserBtnPressed(is_pressed) => {}
DispatchHardwareUserBtnPressed ==
    /\ LeafDone("HardwareUserBtnPressed")
    /\ UNCHANGED << timestamp, moon_call, ntp, sky_call, build, ACTION_CHANNEL, REFRESH_SIGNAL, ctrlPc, root, ret, globals,
                    current_sky, CURRENT_MOON, renderPc, wokenBy, pause, unseenWrite, sent,
                    accepted, received, fullSeen >>

\* Action::TouchscreenToggleBtn(on) => { if on {} else {} }
DispatchTouchscreenToggleBtn ==
    /\ LeafDone("TouchscreenToggleBtn")
    /\ UNCHANGED << timestamp, moon_call, ntp, sky_call, build, ACTION_CHANNEL, REFRESH_SIGNAL, ctrlPc, root, ret, globals,
                    current_sky, CURRENT_MOON, renderPc, wokenBy, pause, unseenWrite, sent,
                    accepted, received, fullSeen >>

\* Mutant of StartCountDownGlobals: a countdown that has not expired is kept.
StartCountDownGlobalsKeepRunning(g, a) ==
    IF g.countdown > a.time
    THEN g
    ELSE [g EXCEPT !.countdown = a.time + a.dur, !.countdown_total_duration = a.dur]

\* Mutant of StartCountDownGlobals: the deadline is taken from the duration
\* alone.
StartCountDownGlobalsFromZero(g, a) ==
    [g EXCEPT !.countdown = a.dur, !.countdown_total_duration = a.dur]

\* Action::StartCountDown(current_time, duration): stops_at = current_time + d.
StartCountDownGlobals(g, a) ==
    [g EXCEPT !.countdown = a.time + a.dur, !.countdown_total_duration = a.dur]

DispatchStartCountDown ==
    /\ LeafDone("StartCountDown")
    /\ globals' = StartCountDownGlobals(globals, Top.action)
    /\ unseenWrite' = TRUE
    /\ UNCHANGED << timestamp, moon_call, ntp, sky_call, build, ACTION_CHANNEL, REFRESH_SIGNAL, ctrlPc, root, ret,
                    current_sky, CURRENT_MOON, renderPc, wokenBy, pause, sent, accepted,
                    received, fullSeen >>

\* Action::WifiStateUpdate(wifi_state) => globals.set_wifi_state(wifi_state)
DispatchWifiStateUpdate ==
    /\ LeafDone("WifiStateUpdate")
    /\ globals' = [globals EXCEPT !.wifi_state = Top.action.wifi]
    /\ unseenWrite' = TRUE
    /\ UNCHANGED << timestamp, moon_call, ntp, sky_call, build, ACTION_CHANNEL, REFRESH_SIGNAL, ctrlPc, root, ret,
                    current_sky, CURRENT_MOON, renderPc, wokenBy, pause, sent, accepted,
                    received, fullSeen >>

\* Mutant of DispatchShowMonster: showing the monster also puts it back at
\* its default position.
DispatchShowMonsterResetsPosition ==
    /\ LeafDone("ShowMonster")
    /\ globals' = [globals EXCEPT !.monster_visibility = Top.action.flag,
                                  !.monster_position = DefaultGlobals.monster_position]
    /\ unseenWrite' = TRUE
    /\ UNCHANGED << timestamp, moon_call, ntp, sky_call, build, ACTION_CHANNEL, REFRESH_SIGNAL, ctrlPc, root, ret,
                    current_sky, CURRENT_MOON, renderPc, wokenBy, pause, sent, accepted,
                    received, fullSeen >>

\* Action::ShowMonster(monster) => globals.set_monster_visibility(monster)
DispatchShowMonster ==
    /\ LeafDone("ShowMonster")
    /\ globals' = [globals EXCEPT !.monster_visibility = Top.action.flag]
    /\ unseenWrite' = TRUE
    /\ UNCHANGED << timestamp, moon_call, ntp, sky_call, build, ACTION_CHANNEL, REFRESH_SIGNAL, ctrlPc, root, ret,
                    current_sky, CURRENT_MOON, renderPc, wokenBy, pause, sent, accepted,
                    received, fullSeen >>

\* Action::TimeOfDayUpdate(tod, moon): the time of day and the moon image.
DispatchTimeOfDayUpdate ==
    /\ LeafDone("TimeOfDayUpdate")
    /\ globals' = [globals EXCEPT
                      !.time_of_day = Top.action.tod,
                      !.moon = MoonImage(Top.action.phase, Top.action.illum)]
    /\ unseenWrite' = TRUE
    /\ UNCHANGED << timestamp, moon_call, ntp, sky_call, build, ACTION_CHANNEL, REFRESH_SIGNAL, ctrlPc, root, ret,
                    current_sky, CURRENT_MOON, renderPc, wokenBy, pause, sent, accepted,
                    received, fullSeen >>

\* Mutant of SkyUpToDate: the difference is compared without abs().
SkyUpToDateNoAbs(cache, t) == cache.some /\ (t - cache.version) < SkyValiditySecs

\* Mutant of SkyUpToDate: a cached sky is still valid when exactly 60 s old.
SkyUpToDateInclusive(cache, t) == cache.some /\ Abs(t - cache.version) <= SkyValiditySecs

\* up_to_date_sky: the cached sky is within 60 s of current_time.
SkyUpToDate(cache, t) == cache.some /\ Abs(t - cache.version) < SkyValiditySecs

\* updated_moon: current_time is less than 3600 s after the cached moon.
MoonUpToDate(cache, t) == cache.some /\ (t - cache.version) < MoonValiditySecs

\* Mutant of MonsterPosition: the monster goes to sleep at 14:00, while the
\* house still starts at 20:00 or with the night factor.
MonsterPositionEarlySleep(hour, night_factor) ==
    LET house == (hour >= 20 \/ hour < 8) \/ 4 * night_factor > NightFactorDen
        sleeping == hour >= 14 \/ hour < 7
    IN  [env |-> IF sleeping THEN "SLEEPING" ELSE IF house THEN "HOUSE" ELSE "OUTSIDE",
         x |-> IF house THEN 195 ELSE 125,
         y |-> IF house THEN 138 ELSE 188]

\* Mutant of MonsterPosition: the monster goes in only when night_factor > 0.5.
MonsterPositionHalfNight(hour, night_factor) ==
    LET house == (hour >= 20 \/ hour < 8) \/ 2 * night_factor > NightFactorDen
        sleeping == hour >= 21 \/ hour < 7
    IN  [env |-> IF sleeping THEN "SLEEPING" ELSE IF house THEN "HOUSE" ELSE "OUTSIDE",
         x |-> IF house THEN 195 ELSE 125,
         y |-> IF house THEN 138 ELSE 188]

\* Mutant of MonsterPosition: the monster never goes to sleep.
MonsterPositionNoSleep(hour, night_factor) ==
    LET house == (hour >= 20 \/ hour < 8) \/ 4 * night_factor > NightFactorDen
    IN  [env |-> IF house THEN "HOUSE" ELSE "OUTSIDE",
         x |-> IF house THEN 195 ELSE 125,
         y |-> IF house THEN 138 ELSE 188]

\* The monster's place for a local hour and a night factor (over
\* NightFactorDen): in the house at night or when night_factor > 0.25,
\* sleeping in the late-night window.
MonsterPosition(hour, night_factor) ==
    LET house == (hour >= 20 \/ hour < 8) \/ 4 * night_factor > NightFactorDen
        sleeping == hour >= 21 \/ hour < 7
    IN  [env |-> IF sleeping THEN "SLEEPING" ELSE IF house THEN "HOUSE" ELSE "OUTSIDE",
         x |-> IF house THEN 195 ELSE 125,
         y |-> IF house THEN 138 ELSE 188]

\* The UI fields after the sky part of the UpdateTime arm recomputed the sky.
SkyGlobals(g, t, sky) ==
    [g EXCEPT !.night_factor = sky.night_factor,
              !.time_of_day = sky.tod,
              !.sky_brush = sky.brush,
              !.monster_position = MonsterPosition(ParisHour(t), sky.night_factor)]

\* Mutant of UpdateTimeEffect: the monster position follows every tick, also
\* on a sky cache hit.
UpdateTimeEffectMonsterEveryTick(g, sky_cache, moon_cache, t) ==
    LET g1 == [g EXCEPT !.current_time = t]
        stale_sky == ~SkyUpToDate(sky_cache, t)
        sky == get_slint_gradient(SolarElevation(t), SolarAzimuthGt180(t))
        stale_moon == ~MoonUpToDate(moon_cache, t)
        g2 == IF stale_sky
              THEN SkyGlobals(g1, t, sky)
              ELSE [g1 EXCEPT !.monster_position =
                       MonsterPosition(ParisHour(t), sky.night_factor)]
        g3 == IF stale_moon
              THEN [g2 EXCEPT !.moon =
                       MoonImage(MoonPhase(t), MoonIllumination(MoonPhase(t)))]
              ELSE g2
    IN  IF stale_sky /\ sky.panic
        THEN [panic |-> TRUE, globals |-> g1, sky |-> SomeVersion(t),
              moon |-> moon_cache]
        ELSE [panic |-> FALSE, globals |-> g3,
              sky |-> IF stale_sky THEN SomeVersion(t) ELSE sky_cache,
              moon |-> IF stale_moon THEN SomeVersion(t) ELSE moon_cache]

\* Mutant of UpdateTimeEffect: the displayed time is stored only when the sky
\* is recomputed.
UpdateTimeEffectTimeOnMiss(g, sky_cache, moon_cache, t) ==
    LET stale_sky == ~SkyUpToDate(sky_cache, t)
        g1 == IF stale_sky THEN [g EXCEPT !.current_time = t] ELSE g
        sky == get_slint_gradient(SolarElevation(t), SolarAzimuthGt180(t))
        stale_moon == ~MoonUpToDate(moon_cache, t)
        g2 == IF stale_sky THEN SkyGlobals(g1, t, sky) ELSE g1
        g3 == IF stale_moon
              THEN [g2 EXCEPT !.moon =
                       MoonImage(MoonPhase(t), MoonIllumination(MoonPhase(t)))]
              ELSE g2
    IN  IF stale_sky /\ sky.panic
        THEN [panic |-> TRUE, globals |-> g1, sky |-> SomeVersion(t),
              moon |-> moon_cache]
        ELSE [panic |-> FALSE, globals |-> g3,
              sky |-> IF stale_sky THEN SomeVersion(t) ELSE sky_cache,
              moon |-> IF stale_moon THEN SomeVersion(t) ELSE moon_cache]

\* Action::UpdateTime(current_time): the UI fields, the two caches, and
\* whether get_slint_gradient panicked on the way.
UpdateTimeEffect(g, sky_cache, moon_cache, t) ==
    LET g1 == [g EXCEPT !.current_time = t]
        stale_sky == ~SkyUpToDate(sky_cache, t)
        sky == get_slint_gradient(SolarElevation(t), SolarAzimuthGt180(t))
        stale_moon == ~MoonUpToDate(moon_cache, t)
        g2 == IF stale_sky THEN SkyGlobals(g1, t, sky) ELSE g1
        g3 == IF stale_moon
              THEN [g2 EXCEPT !.moon =
                       MoonImage(MoonPhase(t), MoonIllumination(MoonPhase(t)))]
              ELSE g2
    IN  IF stale_sky /\ sky.panic
        THEN [panic |-> TRUE, globals |-> g1, sky |-> SomeVersion(t),
              moon |-> moon_cache]
        ELSE [panic |-> FALSE, globals |-> g3,
              sky |-> IF stale_sky THEN SomeVersion(t) ELSE sky_cache,
              moon |-> IF stale_moon THEN SomeVersion(t) ELSE moon_cache]

DispatchUpdateTime ==
    /\ AtStep("dispatch")
    /\ Top.action.kind = "UpdateTime"
    /\ LET e == UpdateTimeEffect(globals, current_sky, CURRENT_MOON, Top.action.time)
       IN  /\ globals' = e.globals
           /\ current_sky' = e.sky
           /\ CURRENT_MOON' = e.moon
           /\ IF e.panic
              THEN /\ ctrlPc' = "panicked"
                   /\ UNCHANGED << stack, applied >>
              ELSE /\ ctrlPc' = ctrlPc
                   /\ stack' = SetTop([Top EXCEPT !.pos = Top.pos + 1])
                   /\ applied' = Append(applied, Top.action)
    /\ unseenWrite' = TRUE
    /\ UNCHANGED << timestamp, moon_call, ntp, sky_call, build, ACTION_CHANNEL, REFRESH_SIGNAL, root, ret, renderPc,
                    wokenBy, pause, sent, accepted, received, fullSeen >>

\* Mutant of NextSub: the list is walked from its end.
NextSubReversed(actions, i) == actions[Len(actions) + 1 - i]

\* for a in actions.iter(): the i-th sub-action.
NextSub(actions, i) == actions[i]

\* Action::MultipleActions(actions): call process_action on the next
\* sub-action, or leave the loop when there is none left.
DispatchMultipleActions ==
    /\ AtStep("dispatch")
    /\ Top.action.kind = "MultipleActions"
    /\ IF Top.i <= Len(Top.action.subs)
       THEN stack' = Append(SetTop([Top EXCEPT !.i = Top.i + 1]),
                            NewFrame(NextSub(Top.action.subs, Top.i)))
       ELSE stack' = SetTop([Top EXCEPT !.pos = Top.pos + 1])
    /\ UNCHANGED << timestamp, moon_call, ntp, sky_call, build, ACTION_CHANNEL, REFRESH_SIGNAL, ctrlPc, root, ret, globals,
                    current_sky, CURRENT_MOON, renderPc, wokenBy, pause, unseenWrite, sent,
                    accepted, received, applied, fullSeen >>

\* Mutant of RunLoopNext: run leaves its loop after one action.
RunLoopNextHalts(result) == "halted"

\* Controller.run's match on the result of process_action: Ok(()) does
\* nothing, Err(e) logs; the loop goes on to the next receive.
RunLoopNext(result) == "loop"

\* process_action returns Ok(()): to the enclosing MultipleActions loop
\* (let _ = ...), or to Controller.run.
CtrlReturn ==
    /\ ctrlPc = "process"
    /\ stack /= <<>>
    /\ Top.pos = ReturnPos
    /\ stack' = SubSeq(stack, 1, Len(stack) - 1)
    /\ IF Len(stack) = 1
       THEN /\ ret' = "Ok"
            /\ ctrlPc' = RunLoopNext("Ok")
            /\ root' = NoRoot
            /\ applied' = <<>>
            /\ fullSeen' = FALSE
       ELSE UNCHANGED << ret, ctrlPc, root, applied, fullSeen >>
    /\ UNCHANGED << timestamp, moon_call, ntp, sky_call, build, ACTION_CHANNEL, REFRESH_SIGNAL, globals, current_sky,
                    CURRENT_MOON, renderPc, wokenBy, pause, unseenWrite, sent, accepted,
                    received >>

(***************************************************************************)
(* refresh_screen and the render loop.                                     *)
(***************************************************************************)
\* Mutant of refresh_screen: the pending action is read but stays pending.
refresh_screen_peek(sig) == [r |-> Head(sig), ch |-> sig]

\* refresh_screen(): let r = REFRESH_SIGNAL.receive().await;
\* REFRESH_SIGNAL.clear(); r
refresh_screen(sig) ==
    LET r == receive(sig)
    IN  [r |-> r.msg, ch |-> clear(r.ch)]

\* SLINT_FRAME_DURATION_MS = 1000 / SLINT_TARGET_FPS, with 25 frames a second.
SlintFrameDurationMs == 40

\* Mutant of pause_for_target_fps: a late frame is followed by no pause.
pause_for_target_fps_unfloored(total) ==
    IF SlintFrameDurationMs - total > 0 THEN SlintFrameDurationMs - total ELSE 0

\* The milliseconds of the Timer awaited when animations are active:
\* SLINT_FRAME_DURATION_MS - total when that is positive, 1 otherwise.
pause_for_target_fps(total) ==
    IF SlintFrameDurationMs - total > 0 THEN SlintFrameDurationMs - total ELSE 1

\* One pass of the loop body up to its await and into it:
\* update_timers_and_animations, draw_if_needed, then the choice of the wait.
\* Whether animations are active, whether a slint timer is due and how long
\* the pass took (total, in ms) are the UI toolkit's and the clock's answers.
\* A Timer returns Pending at its first poll, so the task suspends in it.
\* REFRESH_SIGNAL.receive() is ready at its first poll when a refresh is
\* pending: refresh_screen() (first in the select) then completes without
\* the task being suspended, and the loop goes on to its next pass.
RenderDraw ==
    /\ \/ renderPc = "draw"
       \/ renderPc = "spawned" /\ ~CtrlRunning
    /\ unseenWrite' = FALSE
    /\ \E has_active_animations \in BOOLEAN, next_timer_update \in BOOLEAN,
          total \in {39, 40, 41} :
          IF has_active_animations
          THEN /\ renderPc' = "timer"
               /\ pause' = pause_for_target_fps(total)
               /\ wokenBy' = "none"
               /\ UNCHANGED REFRESH_SIGNAL
          ELSE IF REFRESH_SIGNAL /= <<>>
          THEN /\ renderPc' = "draw"
               /\ pause' = 0
               /\ wokenBy' = "refresh"
               /\ REFRESH_SIGNAL' = refresh_screen(REFRESH_SIGNAL).ch
          ELSE /\ renderPc' = IF next_timer_update THEN "select" ELSE "refresh"
               /\ pause' = 0
               /\ wokenBy' = "none"
               /\ UNCHANGED REFRESH_SIGNAL
    /\ UNCHANGED << timestamp, moon_call, ntp, sky_call, build, ACTION_CHANNEL, ctrlPc, root, stack, ret,
                    globals, current_sky, CURRENT_MOON, sent, accepted,
                    received, applied, fullSeen >>

\* controller::refresh_screen() completes, alone or inside the select.
RenderRefresh ==
    /\ Idle
    /\ renderPc \in {"select", "refresh"}
    /\ REFRESH_SIGNAL /= <<>>
    /\ REFRESH_SIGNAL' = refresh_screen(REFRESH_SIGNAL).ch
    /\ renderPc' = "draw"
    /\ wokenBy' = "refresh"
    /\ pause' = 0
    /\ UNCHANGED << timestamp, moon_call, ntp, sky_call, build, ACTION_CHANNEL, ctrlPc, root, stack, ret, globals,
                    current_sky, CURRENT_MOON, unseenWrite, sent, accepted, received,
                    applied, fullSeen >>

\* The Timer of the select, or the frame-pacing Timer, elapses.
RenderTimer ==
    /\ Idle
    /\ renderPc \in {"select", "timer"}
    /\ renderPc' = "draw"
    /\ wokenBy' = "timer"
    /\ pause' = 0
    /\ UNCHANGED << timestamp, moon_call, ntp, sky_call, build, ACTION_CHANNEL, REFRESH_SIGNAL, ctrlPc, root, stack, ret,
                    globals, current_sky, CURRENT_MOON, unseenWrite, sent, accepted,
                    received, applied, fullSeen >>

(***************************************************************************)
(* get_slint_gradient called on its own.                                   *)
(***************************************************************************)
\* The elevations the SKY table is written for, -270 to 90 degrees, in
\* hundredths of a degree.
SkyAngles == (-27000)..9000

\* The sun's positions a call may be given: any elevation, on either side.
SkyCalls ==
    {[NoSkyCall EXCEPT !.angle = a, !.azimuth_gt_180 = side] :
        a \in SkyAngles, side \in BOOLEAN}

\* get_slint_gradient runs on the position drawn: the index of the segment
\* it selects, and what it returns unless it panics.
CallGetSlintGradient ==
    /\ ~sky_call.done
    /\ LET r == get_slint_gradient(sky_call.angle, sky_call.azimuth_gt_180)
       IN  sky_call' =
              [sky_call EXCEPT !.done = TRUE,
                               !.idx = SkyIdx(sky_call.angle, sky_call.azimuth_gt_180),
                               !.neighbour =
                                   NeighbourIdx(sky_call.angle, sky_call.azimuth_gt_180),
                               !.mix_factor =
                                   MixFactor(sky_call.angle, sky_call.azimuth_gt_180),
                               !.panic = r.panic,
                               !.tod = r.tod,
                               !.night_factor = r.night_factor]
    /\ UNCHANGED << timestamp, moon_call, ntp, build, ACTION_CHANNEL, REFRESH_SIGNAL, ctrlPc, root, stack, ret,
                    globals, current_sky, CURRENT_MOON, renderPc, wokenBy, pause,
                    unseenWrite, sent, accepted, received, applied, fullSeen >>

(***************************************************************************)
(* Moon::new called on its own.                                            *)
(***************************************************************************)
\* The times given to Moon::new: the Unix epoch, 2000-01-01 00:00:00 UTC
\* (what a DS1307 that was never set counts from), a day of 2023, and every
\* half day from 35 days before the orbit's reference new moon (2000-01-06)
\* to 35 days after it.
MoonCalls ==
    {[NoMoonCall EXCEPT !.time = t] :
        t \in {0, 946684800, 1700042400}
                 \cup {OrbitOffsetSecs + k * (SecsPerDay \div 2) : k \in (-70)..70}}

CallMoonNew ==
    /\ ~moon_call.done
    /\ moon_call' =
          [moon_call EXCEPT !.done = TRUE,
                            !.phase = MoonPhase(moon_call.time),
                            !.age = MoonAge(moon_call.time),
                            !.illumination = MoonIllumination(MoonPhase(moon_call.time)),
                            !.waning = is_waning(MoonAge(moon_call.time)),
                            !.waxing = is_waxing(MoonAge(moon_call.time))]
    /\ UNCHANGED << timestamp, ntp, sky_call, build, ACTION_CHANNEL, REFRESH_SIGNAL,
                    ctrlPc, root, stack, ret, globals, current_sky, CURRENT_MOON,
                    renderPc, wokenBy, pause, unseenWrite, sent, accepted, received,
                    applied, fullSeen >>

(***************************************************************************)
(* The Timestamp of the NtpClient's context on its own.                    *)
(***************************************************************************)
\* What is left alone by the steps on the Timestamp.
TsLeaves ==
    UNCHANGED << moon_call, ntp, sky_call, build, ACTION_CHANNEL, REFRESH_SIGNAL, ctrlPc,
                 root, stack, ret, globals, current_sky, CURRENT_MOON, renderPc,
                 wokenBy, pause, unseenWrite, sent, accepted, received, applied, fullSeen >>

\* Time passes on the monotonic clock (Instant::now()): a millisecond, a
\* microsecond less, or 2.5 s.
TsElapse ==
    /\ timestamp.elapses < MaxElapses
    /\ \E d \in {999, 1000, 2500000} :
          timestamp' = [timestamp EXCEPT !.mono = @ + d, !.elapses = @ + 1]
    /\ TsLeaves

\* The Ok arm of NtpClient.run: self.context =
\* NtpContext::new(Timestamp::new(datetime)).  A response takes time, so
\* none comes at the instant of boot.  The reference is 1 s or 1.700123 s.
TsSync ==
    /\ timestamp.syncs < MaxSyncs
    /\ timestamp.mono > 0
    /\ \E sec \in {1},
          f \in {[hi |-> 0, mid |-> 0, lo |-> 0], [hi |-> 0, mid |-> 0, lo |-> 1],
                 [hi |-> 256, mid |-> 0, lo |-> 0], [hi |-> 358, mid |-> 948, lo |-> 717],
                 [hi |-> 511, mid |-> 2047, lo |-> 4095]} :
          timestamp' = [timestamp EXCEPT !.ts = TimestampNew(sec * 1000000
                                                   + sec_fraction_nanos(f) \div 1000),
                                         !.fraction = f,
                                         !.nanos = sec_fraction_nanos(f),
                                         !.syncs = @ + 1,
                                         !.m0 = timestamp.mono,
                                         !.init_at = -1,
                                         !.sec = -1,
                                         !.subsec = -1,
                                         !.reported = -1,
                                         !.reported_at = -1]
    /\ TsLeaves

\* context.timestamp_gen.init(), as the request code calls it.
TsInit ==
    /\ timestamp.init_at /= timestamp.mono
    /\ timestamp' = [timestamp EXCEPT !.ts = TimestampInit(@, timestamp.mono),
                                      !.init_at = timestamp.mono,
                                      !.sec = -1,
                                      !.subsec = -1]
    /\ TsLeaves

\* timestamp_sec() and timestamp_subsec_micros() are read.
TsRead ==
    /\ timestamp.init_at /= -1
    /\ timestamp' = [timestamp EXCEPT !.sec = timestamp_sec(timestamp.ts),
                                      !.subsec = timestamp_subsec_micros(timestamp.ts)]
    /\ TsLeaves

\* NtpClient::get_date_time is called: it works on a clone and leaves the
\* context as it is.
TsGetDateTime ==
    /\ timestamp.reported_at /= timestamp.mono
    /\ timestamp' = [timestamp EXCEPT !.reported = get_date_time(timestamp.ts, timestamp.mono),
                                      !.reported_at = timestamp.mono]
    /\ TsLeaves

(***************************************************************************)
(* NtpClient.run (ntp.rs).  The network is the environment: each poll of   *)
(* the link and of the configuration, the DNS query and each time request  *)
(* may come out either way.  The clock is in milliseconds.  A get_time     *)
(* that never completes (no socket timeout is set) is the client standing  *)
(* still at its request.                                                   *)
(***************************************************************************)
\* What is left alone by the steps of NtpClient.run.
NtpLeaves ==
    UNCHANGED << timestamp, moon_call, sky_call, build, ACTION_CHANNEL, REFRESH_SIGNAL, ctrlPc, root, stack,
                 ret, globals, current_sky, CURRENT_MOON, renderPc, wokenBy, pause,
                 unseenWrite, sent, accepted, received, applied, fullSeen >>

\* Mutant of NtpRetryDelayMillis: a failed request doubles the wait.
NtpRetryDelayBackOff(result) ==
    IF result = "err" THEN 2 * 1000 * NtpIntervalSecs ELSE 1000 * NtpIntervalSecs

\* Timer::after(Duration::from_secs(15 * 60)) at the end of the request loop,
\* whatever the request came to.
NtpRetryDelayMillis(result) == 1000 * NtpIntervalSecs

\* How long a time request takes to come back, in milliseconds.
NtpRoundTrips == {20, 70}

\* Mutant of NtpPollNext: the loop is left whatever the poll saw.
NtpPollNextGivesUp(ok, here, next) == next

\* Where a waiting loop of NtpClient.run goes after a poll: out of it (break)
\* when the poll saw what it waits for, round again otherwise.
NtpPollNext(ok, here, next) == IF ok THEN next ELSE here

\* loop { if stack.is_link_up() { break; } Timer::after(500 ms).await; }
NtpLinkPoll ==
    /\ ntp.pc = "link"
    /\ \E up \in BOOLEAN :
          /\ up \/ ntp.link_polls < MaxNtpPolls
          /\ ntp' = [ntp EXCEPT !.link = up,
                                !.pc = NtpPollNext(up, "link", "wait_config"),
                                !.link_polls = IF up THEN @ ELSE @ + 1,
                                !.clock = IF up THEN @ ELSE @ + NtpPollMillis]
    /\ NtpLeaves

\* stack.wait_config_up().await, when it completes.
NtpWaitConfigUp ==
    /\ ntp.pc = "wait_config"
    /\ ntp' = [ntp EXCEPT !.pc = "config"]
    /\ NtpLeaves

\* loop { if let Some(config) = stack.config_v4() { break; } Timer::after(500 ms).await; }
NtpConfigPoll ==
    /\ ntp.pc = "config"
    /\ \E some \in BOOLEAN :
          /\ some \/ ntp.config_polls < MaxNtpPolls
          /\ ntp' = [ntp EXCEPT !.config = some,
                                !.pc = NtpPollNext(some, "config", "bind"),
                                !.config_polls = IF some THEN @ ELSE @ + 1,
                                !.clock = IF some THEN @ ELSE @ + NtpPollMillis]
    /\ NtpLeaves

\* UdpSocket::new(...) and socket.bind(123).unwrap(): a fresh socket and a
\* fixed port, which bind accepts.
NtpBind ==
    /\ ntp.pc = "bind"
    /\ ntp' = [ntp EXCEPT !.pc = "dns"]
    /\ NtpLeaves

\* stack.dns_query(NTP_SERVER, A).await.expect("Failed to resolve DNS") and
\* the is_empty() test that follows: expect panics on an error, an empty
\* list is logged and the run goes on.
NtpDnsQuery ==
    /\ ntp.pc = "dns"
    /\ \E r \in {"error", "empty", "addrs"} :
          ntp' = [ntp EXCEPT !.dns = r,
                             !.pc = IF r = "error" THEN "panicked" ELSE "addr",
                             !.errors = IF r = "empty" THEN @ + 1 ELSE @]
    /\ NtpLeaves

\* let addr: IpAddr = ntp_addrs[0].into(): indexing an empty list panics.
NtpFirstAddr ==
    /\ ntp.pc = "addr"
    /\ ntp' = [ntp EXCEPT !.pc = IF ntp.dns = "empty" THEN "panicked" ELSE "get_time"]
    /\ NtpLeaves

\* Mutant of NtpMatchResult: a failed request forgets the reference.
NtpMatchResultForgets(offset, first, result, datetime) ==
    IF result = "ok" THEN [offset |-> datetime, first |-> FALSE]
                     ELSE [offset |-> 0, first |-> TRUE]

\* The reference time of the context and the first-sample flag after the
\* match on the result of get_time: the Ok arm stores the time received
\* and clears first, the Err arm touches neither.
NtpMatchResult(offset, first, result, datetime) ==
    IF result = "ok" THEN [offset |-> datetime, first |-> FALSE]
                     ELSE [offset |-> offset, first |-> first]

\* get_time(...).await and the match on its result: Ok keeps the time as the
\* new context, Err is logged.  The time received is the wall clock, a day
\* past the epoch at boot.
NtpGetTime ==
    /\ ntp.pc = "get_time"
    /\ Len(ntp.results) < MaxNtpRequests
    /\ \E r \in {"ok", "err"}, rt \in NtpRoundTrips :
          ntp' = [ntp EXCEPT !.pc = "sleep",
                             !.requested = Append(@, ntp.clock),
                             !.clock = @ + rt,
                             !.results = Append(@, r),
                             !.context_set = IF r = "ok" THEN TRUE ELSE @,
                             !.offset = NtpMatchResult(ntp.offset, ntp.first, r,
                                            1000 * SecsPerDay + ntp.clock + rt).offset,
                             !.first = NtpMatchResult(ntp.offset, ntp.first, r,
                                            1000 * SecsPerDay + ntp.clock + rt).first,
                             !.errors = IF r = "err" THEN @ + 1 ELSE @]
    /\ NtpLeaves

\* Timer::after(Duration::from_secs(15 * 60)).await, then the loop again.
NtpSleep ==
    /\ ntp.pc = "sleep"
    /\ ntp' = [ntp EXCEPT !.pc = "get_time",
                          !.clock = @ + NtpRetryDelayMillis(ntp.results[Len(ntp.results)])]
    /\ NtpLeaves

(***************************************************************************)
(* The system.                                                             *)
(***************************************************************************)
Controller ==
    \/ CtrlStart
    \/ CtrlAwaitAction
    \/ CtrlReceive
    \/ CtrlPublish
    \/ CtrlTimer
    \/ DispatchHardwareUserBtnPressed
    \/ DispatchTouchscreenToggleBtn
    \/ DispatchStartCountDown
    \/ DispatchWifiStateUpdate
    \/ DispatchUpdateTime
    \/ DispatchShowMonster
    \/ DispatchTimeOfDayUpdate
    \/ DispatchMultipleActions
    \/ CtrlReturn

RenderLoop ==
    \/ RenderDraw
    \/ RenderRefresh
    \/ RenderTimer

Next == SendAction \/ Controller \/ RenderLoop

Spec == Init /\ [][Next]_vars

\* The Controller can take a step: it holds the processor, or its 1 ms Timer
\* or its receive is ready and the render loop does not hold the processor.
\* This is ENABLED <<Controller>>_vars, written out (CtrlReadyIsEnabled).
CtrlReady ==
    \/ CtrlRunning
    \/ AtStep("timer") /\ ~RenderRunning
    \/ ctrlPc = "receive" /\ ACTION_CHANNEL /= <<>> /\ ~RenderRunning

\* The executor polls every task that is ready, and the 1 ms Timer elapses:
\* the Controller goes on whenever it is ready again and again (strong
\* fairness of Controller, with ENABLED written as CtrlReady), and a render
\* pass that was started reaches its await.  Producers and the toolkit's
\* timers owe nothing.
FairNext == SendActionFair \/ Controller \/ RenderLoop

FairSpec ==
    /\ Init /\ [][FairNext]_vars
    /\ (<>[](~CtrlReady) \/ []<><<Controller>>_vars)
    /\ WF_vars(RenderDraw)

\* The wifi poller floods the Action Channel: the only actions are
\* WifiStateUpdate, so the Controller runs only that arm.
FloodNext ==
    \/ SendWifiState
    \/ CtrlStart
    \/ CtrlAwaitAction
    \/ CtrlReceive
    \/ CtrlPublish
    \/ CtrlTimer
    \/ DispatchWifiStateUpdate
    \/ CtrlReturn
    \/ RenderLoop

FloodSpec == Init /\ [][FloodNext]_vars

\* Only clock readings are sent and nothing is painted: the Controller runs
\* the UpdateTime arm on one reading after the other.
CacheNext ==
    \/ SendUpdateTime
    \/ CtrlStart
    \/ CtrlAwaitAction
    \/ CtrlReceive
    \/ CtrlPublish
    \/ CtrlTimer
    \/ DispatchUpdateTime
    \/ CtrlReturn

CacheSpec == Init /\ [][CacheNext]_vars

\* Only countdowns are started and nothing is painted.
CountDownNext ==
    \/ SendStartCountDown
    \/ CtrlStart
    \/ CtrlAwaitAction
    \/ CtrlReceive
    \/ CtrlPublish
    \/ CtrlTimer
    \/ DispatchStartCountDown
    \/ CtrlReturn

CountDownSpec == Init /\ [][CountDownNext]_vars

\* Countdowns started over one another, among the other kinds of action;
\* nothing is painted.
RestartNext == SendRestart \/ Controller

RestartSpec == Init /\ [][RestartNext]_vars

\* One tick a second for a day, each processed before the next; nothing is
\* painted.
DayNext ==
    \/ Tick
    \/ CtrlStart
    \/ CtrlAwaitAction
    \/ CtrlReceive
    \/ CtrlPublish
    \/ CtrlTimer
    \/ DispatchUpdateTime
    \/ CtrlReturn

\* The state after construction of the firmware build.
McuInit == Init /\ build = "mcu"

DaySpec == McuInit /\ [][DayNext]_vars

\* The Timestamp of the client's context as time passes, syncs replace it
\* and it is read.
TimestampNext ==
    \/ TsElapse
    \/ TsSync
    \/ TsInit
    \/ TsRead
    \/ TsGetDateTime

TimestampSpec == McuInit /\ [][TimestampNext]_vars

\* Moon::new is called once, for a time of MoonCalls.
MoonInit ==
    /\ moon_call \in MoonCalls
    /\ timestamp = TimestampAtBoot
    /\ ntp = NtpSpawned
    /\ sky_call = NoSkyCall
    /\ build = "mcu"
    /\ ACTION_CHANNEL = <<>>
    /\ REFRESH_SIGNAL = <<>>
    /\ ctrlPc = "start"
    /\ root = NoRoot
    /\ stack = <<>>
    /\ ret = "none"
    /\ globals = DefaultGlobals
    /\ current_sky = NoneVersion
    /\ CURRENT_MOON = NoneVersion
    /\ renderPc = "spawned"
    /\ wokenBy = "none"
    /\ pause = 0
    /\ unseenWrite = FALSE
    /\ sent = 0
    /\ accepted = 0
    /\ received = 0
    /\ applied = <<>>
    /\ fullSeen = FALSE

MoonNext == CallMoonNew

MoonSpec == MoonInit /\ [][MoonNext]_vars

\* NtpClient.run on its own.
NtpNext ==
    \/ NtpLinkPoll
    \/ NtpWaitConfigUp
    \/ NtpConfigPoll
    \/ NtpBind
    \/ NtpDnsQuery
    \/ NtpFirstAddr
    \/ NtpGetTime
    \/ NtpSleep

NtpSpec == McuInit /\ [][NtpNext]_vars

\* get_slint_gradient is called once, for any position of the sun.
SkyInit ==
    /\ timestamp = TimestampAtBoot
    /\ moon_call = NoMoonCall
    /\ ntp = NtpSpawned
    /\ sky_call \in SkyCalls
    /\ build = "mcu"
    /\ ACTION_CHANNEL = <<>>
    /\ REFRESH_SIGNAL = <<>>
    /\ ctrlPc = "start"
    /\ root = NoRoot
    /\ stack = <<>>
    /\ ret = "none"
    /\ globals = DefaultGlobals
    /\ current_sky = NoneVersion
    /\ CURRENT_MOON = NoneVersion
    /\ renderPc = "spawned"
    /\ wokenBy = "none"
    /\ pause = 0
    /\ unseenWrite = FALSE
    /\ sent = 0
    /\ accepted = 0
    /\ received = 0
    /\ applied = <<>>
    /\ fullSeen = FALSE

SkyNext == CallGetSlintGradient

SkySpec == SkyInit /\ [][SkyNext]_vars

(***************************************************************************)
(* Helpers of the properties.                                              *)
(***************************************************************************)
RECURSIVE Flatten(_), FlattenAll(_)

\* The leaf actions of an action, in list order, a nested composite's leaves
\* at the composite's own position.
Flatten(a) == IF IsComposite(a) THEN FlattenAll(a.subs) ELSE << a >>

FlattenAll(actions) ==
    IF actions = <<>> THEN <<>>
    ELSE Flatten(Head(actions)) \o FlattenAll(Tail(actions))

IsPrefix(p, q) == Len(p) <= Len(q) /\ p = SubSeq(q, 1, Len(p))

Suffix(q, n) == SubSeq(q, Len(q) - n + 1, Len(q))

RECURSIVE NestDepth(_), NestDepthAll(_)

\* 1 for a leaf, 1 + the deepest sub-action for a composite.
NestDepth(a) == IF IsComposite(a) THEN 1 + NestDepthAll(a.subs) ELSE 1

NestDepthAll(actions) ==
    IF actions = <<>> THEN 0
    ELSE LET h == NestDepth(Head(actions))
             t == NestDepthAll(Tail(actions))
         IN  IF h > t THEN h ELSE t

\* The deepest nesting among the actions the producers send.
DeepestInput ==
    CHOOSE d \in {NestDepth(a) : a \in ActionInputs} :
        \A a \in ActionInputs : NestDepth(a) <= d

\* This step is a call of send_action.
SendStep == sent' = sent + 1

\* This step is the Controller's publish attempt on the Refresh Signal.
PublishStep == AtStep("try_send") /\ stack' /= stack

\* The UI fields that the arm of leaf action a always writes hold a's values
\* in the globals g.
Written(a, g) ==
    CASE a.kind = "WifiStateUpdate" -> g.wifi_state = a.wifi
      [] a.kind = "ShowMonster" -> g.monster_visibility = a.flag
      [] a.kind = "UpdateTime" -> g.current_time = a.time
      [] a.kind = "TimeOfDayUpdate" -> g.time_of_day = a.tod
      [] a.kind = "StartCountDown" ->
            /\ g.countdown = a.time + a.dur
            /\ g.countdown_total_duration = a.dur
      [] OTHER -> TRUE

\* This step is the UpdateTime arm of process_action.
UpdateTimeStep == AtStep("dispatch") /\ Top.action.kind = "UpdateTime"

\* The UI fields the sky part of the UpdateTime arm writes.
SkyFields(g) == << g.night_factor, g.time_of_day, g.sky_brush, g.monster_position >>

\* What those fields are when the sky is computed for the time t.
SkyFieldsAt(t) ==
    LET sky == get_slint_gradient(SolarElevation(t), SolarAzimuthGt180(t))
    IN  << sky.night_factor, sky.tod, sky.brush,
           MonsterPosition(ParisHour(t), sky.night_factor) >>

\* gradient.start and gradient.end of the table entry of 0-based index i.
SkyColours(i) == << SkyGradientStart[i + 1], SkyGradientEnd[i + 1] >>

\* The index the lookup selects for the elevation of the call on the other
\* side of the sky.
OtherSideIdx == SkyIdx(sky_call.angle, ~sky_call.azimuth_gt_180)

\* The Controller has applied every tick sent so far and waits for the next.
TickApplied == ctrlPc = "receive" /\ ACTION_CHANNEL = <<>> /\ sent > 0

\* This step completes a refresh_screen() of the render loop.
RefreshStep == renderPc \in {"select", "refresh"} /\ wokenBy' = "refresh"

(***************************************************************************)
(* C1: when the Action Channel holds its full capacity N (4 on mcu, 2 in   *)
(* the simulator), a further send_action(a) is still possible at once (it  *)
(* does not wait for room), discards a, and leaves the N queued actions    *)
(* unchanged and in the same order.                                        *)
(***************************************************************************)
C1_FullChannelDropsNewest ==
    /\ [](Idle /\ sent < MaxFloodSends => ENABLED SendWifiState)
    /\ [][(SendStep /\ Len(ACTION_CHANNEL) = ActionCap(build))
            => (ACTION_CHANNEL' = ACTION_CHANNEL /\ accepted' = accepted)]_vars

\* The mcu channel is full and the send that found it full was dropped.
C1_Witness ==
    /\ build = "mcu"
    /\ Len(ACTION_CHANNEL) = ActionCapMcu
    /\ sent = MaxFloodSends
    /\ accepted = ActionCapMcu

(***************************************************************************)
(* C4: every accepted action is received by Controller.run exactly once    *)
(* and in acceptance order: the channel holds exactly the accepted actions *)
(* not yet received, oldest first, and the action being processed is the   *)
(* latest one received.                                                    *)
(***************************************************************************)
C4_ExactlyOnceInOrder ==
    /\ accepted = received + Len(ACTION_CHANNEL)
    /\ \A k \in 1..Len(ACTION_CHANNEL) : ACTION_CHANNEL[k].id = received + k
    /\ ctrlPc = "process" => root.id = received

\* The second action is being processed while a third, of another kind,
\* waits behind it.
C4_Witness ==
    /\ ctrlPc = "process"
    /\ root.id = 2
    /\ Len(ACTION_CHANNEL) = 1
    /\ ACTION_CHANNEL[1].a.kind /= root.a.kind

\* CtrlReady is the enabling condition of the Controller's step.
CtrlReadyIsEnabled == CtrlReady <=> ENABLED <<Controller>>_vars

(***************************************************************************)
(* C2: in process_action, for every action and every sub-action of a       *)
(* MultipleActions, the publish attempt on the Refresh Signal and then the *)
(* 1 ms suspension come before any write to a UI field caused by that      *)
(* action: when an arm of the match runs or a UI field changes, the call   *)
(* and every enclosing call have published and slept, and no call sleeps   *)
(* before its publish attempt.                                             *)
(***************************************************************************)
C2_PublishAndSleepBeforeWrite ==
    [][ctrlPc = "process"
         => /\ \A k \in 1..Len(stack) : stack[k].slept => stack[k].sig /= "none"
            /\ (globals' /= globals \/ Len(applied') > Len(applied))
                 => \A k \in 1..Len(stack) :
                       stack[k].sig /= "none" /\ stack[k].slept]_vars

\* The UpdateTime sub-action of a tick has written the displayed time.
C2_Witness ==
    /\ ctrlPc = "process"
    /\ Len(stack) = 2
    /\ Top.action.kind = "UpdateTime"
    /\ Top.pos = ReturnPos
    /\ globals.current_time = Top.action.time

(***************************************************************************)
(* C3: the render loop never misses a wake for a state change it has not   *)
(* seen: after process_action wrote a UI field, a repaint pass follows     *)
(* without a later action or a toolkit timer.  Stated on states: there is  *)
(* no state in which a write is unseen while the Controller waits on the   *)
(* empty Action Channel and the render loop waits in refresh_screen()      *)
(* alone, on the empty Refresh Signal.                                     *)
(***************************************************************************)
C3_NoMissedWake ==
    ~ /\ unseenWrite
      /\ ctrlPc = "receive"
      /\ ACTION_CHANNEL = <<>>
      /\ renderPc = "refresh"
      /\ REFRESH_SIGNAL = <<>>

(***************************************************************************)
(* C5: Controller.run never terminates and no action halts it: when        *)
(* process_action finishes the Controller is back at its receive, and      *)
(* every accepted action is eventually received and processed to its end.  *)
(***************************************************************************)
C5_ControllerKeepsServing ==
    /\ [](ctrlPc \in {"start", "loop", "receive", "process"})
    /\ [][ctrlPc = "process" /\ ctrlPc' /= "process"
            => ctrlPc' = "loop" /\ ret' = "Ok"]_vars
    /\ \A k \in 1..MaxFairSends :
          (accepted >= k) ~> (received >= k /\ ctrlPc \in {"loop", "receive"})

\* The Controller is back at its receive after its second action, which was
\* accepted while the first one was being processed.
C5_Witness ==
    /\ received = 2
    /\ ctrlPc = "receive"
    /\ ret = "Ok"
    /\ sent = MaxFairSends

(***************************************************************************)
(* C6: when the publish on the Refresh Signal fails because a refresh is   *)
(* already pending, the pending refresh is left in place and the call goes *)
(* on to its next statement; a call whose publish failed has, when it      *)
(* returns, run its arm (all its leaves, for a composite) and written its  *)
(* fields; and process_action returns Ok to Controller.run.                *)
(***************************************************************************)
C6_FullSignalStillApplies ==
    /\ [][PublishStep /\ REFRESH_SIGNAL /= <<>>
            => /\ REFRESH_SIGNAL' = REFRESH_SIGNAL
               /\ stack' = SetTop([Top EXCEPT !.pos = Top.pos + 1, !.sig = "full"])]_vars
    /\ [](ctrlPc = "process" /\ Top.pos = ReturnPos /\ Top.sig = "full"
            => LET leaves == Flatten(Top.action)
               IN  /\ Len(applied) >= Len(leaves)
                   /\ Suffix(applied, Len(leaves)) = leaves
                   /\ ~IsComposite(Top.action) => Written(Top.action, globals))
    /\ [][ctrlPc = "process" /\ ctrlPc' /= "process" /\ fullSeen
            => ret' = "Ok" /\ ctrlPc' = "loop"]_vars

\* A WifiStateUpdate whose publish failed has set the wifi state, and the
\* refresh of another action is still pending.
C6_Witness ==
    /\ ctrlPc = "process"
    /\ Top.pos = ReturnPos
    /\ Top.sig = "full"
    /\ Top.action.kind = "WifiStateUpdate"
    /\ globals.wifi_state = Top.action.wifi
    /\ REFRESH_SIGNAL /= <<>>
    /\ REFRESH_SIGNAL[1] /= Top.action

(***************************************************************************)
(* C7 as the specification states it: the Refresh Signal has overwrite     *)
(* semantics, so a publish of b while a is pending leaves b in the slot.   *)
(***************************************************************************)
C7_PublishOverwrites ==
    [][PublishStep /\ REFRESH_SIGNAL /= <<>>
         => REFRESH_SIGNAL' = << Top.action >>]_vars

(***************************************************************************)
(* C7 amended: the Refresh Signal keeps the first pending action: a        *)
(* publish of b while a is pending drops b and leaves a in the slot, so    *)
(* the next refresh_screen() returns the earliest action published since   *)
(* the signal was last consumed.                                           *)
(***************************************************************************)
C7_FirstPendingKept ==
    [][PublishStep
         => LET first == IF REFRESH_SIGNAL = <<>> THEN Top.action
                         ELSE Head(REFRESH_SIGNAL)
            IN  /\ REFRESH_SIGNAL' = << first >>
                /\ refresh_screen(REFRESH_SIGNAL').r = first]_vars

\* A sub-action has just failed to publish: the composite that was published
\* first is still the pending action.
C7_Witness ==
    /\ ctrlPc = "process"
    /\ Len(stack) >= 2
    /\ Top.sig = "full"
    /\ ~Top.slept
    /\ REFRESH_SIGNAL = << root.a >>
    /\ Top.action /= root.a

(***************************************************************************)
(* C8: the Refresh Signal never holds more than one pending action; a      *)
(* refresh_screen() that returns leaves the signal empty; and on the empty *)
(* signal refresh_screen() does not return: only a publish of the          *)
(* Controller makes the signal non-empty again.                            *)
(***************************************************************************)
C8_SingleSlotConsumed ==
    /\ [](Len(REFRESH_SIGNAL) <= RefreshCap)
    /\ [][RefreshStep => REFRESH_SIGNAL /= <<>> /\ REFRESH_SIGNAL' = <<>>]_vars
    /\ [](REFRESH_SIGNAL = <<>> => ~ENABLED RenderRefresh)
    /\ [][REFRESH_SIGNAL = <<>> /\ REFRESH_SIGNAL' /= <<>> => PublishStep]_vars

\* refresh_screen() has returned, and the render loop waits in it again on
\* the empty signal while the Controller has nothing to process.
C8_Witness ==
    /\ renderPc = "refresh"
    /\ REFRESH_SIGNAL = <<>>
    /\ received >= 1
    /\ ctrlPc = "receive"
    /\ ~unseenWrite

(***************************************************************************)
(* C9: the sub-actions of MultipleActions are applied one after the other  *)
(* in list order, a nested composite completely at its own position: the   *)
(* arms run so far are always a prefix of the action's leaves in list      *)
(* order, and all of them when the outermost call returns.                 *)
(***************************************************************************)
C9_SubActionsInListOrder ==
    ctrlPc = "process"
      => /\ IsPrefix(applied, Flatten(root.a))
         /\ (Len(stack) = 1 /\ Top.pos = ReturnPos) => applied = Flatten(root.a)

\* The nested composite has been processed to its end: its four leaves ran.
C9_Witness ==
    /\ ctrlPc = "process"
    /\ Len(stack) = 1
    /\ Top.pos = ReturnPos
    /\ NestDepth(root.a) = 3
    /\ Len(applied) = 4
    /\ applied[1].kind = "HardwareUserBtnPressed"
    /\ applied[4].kind = "TouchscreenToggleBtn"

(***************************************************************************)
(* C10: the recursion of process_action on nested MultipleActions is cut   *)
(* by a depth guard: for a composite nested more deeply than the bound the *)
(* calls do not nest as deeply as the composite does, so the nesting of    *)
(* the calls stays below that of the deepest composite sent.               *)
(***************************************************************************)
C10_RecursionDepthGuarded ==
    ctrlPc = "process" => Len(stack) < DeepestInput

(***************************************************************************)
(* C11: on UpdateTime(t2) with the sky cached for t1: when |t1 - t2| < 60  *)
(* the cache is reused (its timestamp, the night factor, the time of day,  *)
(* the sky brush and the monster position stay as they are); when          *)
(* |t1 - t2| >= 60, or nothing is cached, the sky is computed for t2 and   *)
(* cached with t2.                                                         *)
(***************************************************************************)
C11_SkyCacheWindow ==
    [][UpdateTimeStep
         => LET t2 == Top.action.time
                reuse == /\ current_sky.some
                         /\ Abs(current_sky.version - t2) < SkyValiditySecs
            IN  IF reuse
                THEN /\ current_sky' = current_sky
                     /\ SkyFields(globals') = SkyFields(globals)
                ELSE /\ current_sky' = SomeVersion(t2)
                     /\ SkyFields(globals') = SkyFieldsAt(t2)]_vars

\* A reading 59 s before the cached one reused the sky, which is not the sky
\* of that reading.
C11_Witness ==
    /\ ctrlPc = "process"
    /\ Top.pos = ReturnPos
    /\ current_sky.some
    /\ current_sky.version - globals.current_time = 59
    /\ SkyFields(globals) = SkyFieldsAt(current_sky.version)
    /\ SkyFields(globals) /= SkyFieldsAt(globals.current_time)

(***************************************************************************)
(* C12: on UpdateTime(t) the moon image is recomputed exactly when no moon *)
(* is cached or |t - cached| >= 3600, whether t is later or earlier than   *)
(* the cached timestamp; otherwise the image and the cached timestamp stay *)
(* as they are.                                                            *)
(***************************************************************************)
C12_MoonCacheWindow ==
    [][UpdateTimeStep
         => LET t == Top.action.time
                reuse == /\ CURRENT_MOON.some
                         /\ Abs(t - CURRENT_MOON.version) < MoonValiditySecs
            IN  IF reuse
                THEN /\ CURRENT_MOON' = CURRENT_MOON
                     /\ globals'.moon = globals.moon
                ELSE /\ CURRENT_MOON' = SomeVersion(t)
                     /\ globals'.moon =
                           MoonImage(MoonPhase(t), MoonIllumination(MoonPhase(t)))]_vars

\* A reading a full hour before the cached one left the moon as it was.
C12_Witness ==
    /\ ctrlPc = "process"
    /\ Top.pos = ReturnPos
    /\ CURRENT_MOON.some
    /\ CURRENT_MOON.version - globals.current_time = MoonValiditySecs

(***************************************************************************)
(* C13: processing StartCountDown(T, D) sets the countdown deadline to     *)
(* T + D seconds exactly and the countdown total duration to D.            *)
(***************************************************************************)
C13_CountDownDeadline ==
    [][AtStep("dispatch") /\ Top.action.kind = "StartCountDown"
         => /\ globals'.countdown = Top.action.time + Top.action.dur
            /\ globals'.countdown_total_duration = Top.action.dur]_vars

\* The longest countdown was started from the 2023 reading.
C13_Witness ==
    /\ ctrlPc = "process"
    /\ Top.pos = ReturnPos
    /\ Top.action.kind = "StartCountDown"
    /\ Top.action.time = 1700042400
    /\ globals.countdown = 1700042655
    /\ globals.countdown_total_duration = 255

C15_TableContiguousOrdered ==
    sky_call.done
      => /\ \A i \in 1..(SkyLen - 1) : SkyEnd[i] = SkyStart[i + 1]
         /\ \A i \in 1..SkyLen : SkyStart[i] < SkyEnd[i]
         /\ \E i \in 1..SkyLen :
               SkyStart[i] <= sky_call.angle /\ sky_call.angle <= SkyEnd[i]
         /\ Cardinality({i \in 1..SkyLen :
                           SkyStart[i] <= sky_call.angle
                             /\ sky_call.angle < SkyEnd[i]}) <= 1

\* The sun sets at 0.2 degrees: the lookup selects entry 13, which ends at
\* 0.5 degrees, because no entry of the evening pass holds the elevation.
C15_Witness ==
    /\ sky_call.done
    /\ sky_call.azimuth_gt_180
    /\ sky_call.angle = 20
    /\ sky_call.idx = 13
    /\ sky_call.angle < SkyEnd[sky_call.idx + 1]
    /\ \A i \in 12..SkyLen : ~(SkyEnd[i] <= sky_call.angle /\ sky_call.angle < SkyStart[i])

(***************************************************************************)
(* C16 as the specification states it: for any elevation the lookup finds  *)
(* a segment for, the segment selected on the evening side is another      *)
(* table entry than the one selected on the morning side, and the gradient *)
(* colours of the two entries differ.                                      *)
(***************************************************************************)
C16_SidesDifferInColour ==
    sky_call.done /\ sky_call.idx /= -1
      => /\ sky_call.idx /= OtherSideIdx
         /\ SkyColours(sky_call.idx) /= SkyColours(OtherSideIdx)

(***************************************************************************)
(* C16 amended: for any elevation below 80 degrees the two sides select    *)
(* different table entries; the gradient colours of the two entries differ *)
(* from -10 degrees up, and below -10 degrees both entries are the NIGHT   *)
(* entries, which have the same gradient.                                  *)
(***************************************************************************)
C16_SidesDifferInEntry ==
    sky_call.done /\ sky_call.angle < 8000
      => /\ sky_call.idx /= OtherSideIdx
         /\ {sky_call.idx, OtherSideIdx} \subseteq 0..(SkyLen - 1)
         /\ IF sky_call.angle >= -1000
            THEN SkyColours(sky_call.idx) /= SkyColours(OtherSideIdx)
            ELSE /\ SkyColours(sky_call.idx) = SkyColours(OtherSideIdx)
                 /\ {sky_call.idx, OtherSideIdx} = {0, SkyLen - 1}

\* At -10 degrees in the evening the last entry (NIGHT) is selected, and the
\* morning side selects entry 1 (DAWN), of another colour.
C16_Witness ==
    /\ sky_call.done
    /\ sky_call.angle = -1000
    /\ sky_call.azimuth_gt_180
    /\ sky_call.idx = 21
    /\ OtherSideIdx = 1
    /\ SkyColours(21) /= SkyColours(1)

(***************************************************************************)
(* C17: the night factor get_slint_gradient returns is within [0,1]: 0 for *)
(* every elevation at or above 0.5 degrees, 1 for every elevation at or    *)
(* below -8 degrees, and falling linearly with the elevation in between    *)
(* (by 1/8.5 per degree).                                                  *)
(***************************************************************************)
C17_NightFactorClamped ==
    sky_call.done /\ ~sky_call.panic
      => /\ sky_call.night_factor \in 0..NightFactorDen
         /\ sky_call.angle >= 50 => sky_call.night_factor = 0
         /\ sky_call.angle <= -800 => sky_call.night_factor = NightFactorDen
         /\ (-800 < sky_call.angle /\ sky_call.angle < 50)
              => sky_call.night_factor = 50 - sky_call.angle

\* Half way between the two thresholds, at -3.75 degrees, the factor is 0.5.
C17_Witness ==
    /\ sky_call.done
    /\ ~sky_call.panic
    /\ sky_call.angle = -375
    /\ 2 * sky_call.night_factor = NightFactorDen


(***************************************************************************)
(* C18: with one UpdateTime tick per second over 24 hours, after the sky   *)
(* was last computed for the timestamp v (the time of the tick or up to    *)
(* 59 s before it) the monster environment is the one of v: SLEEPING when  *)
(* the local hour of v is 21 or later or before 7, else HOUSE when it is   *)
(* 20 or later or before 8 or the night factor of v is above 0.25, else    *)
(* OUTSIDE.                                                                *)
(***************************************************************************)
C18_EnvFollowsCachedSky ==
    TickApplied
      => LET t == globals.current_time
             v == current_sky.version
             h == ParisHour(v)
             nf == NightFactorNum(SolarElevation(v))
         IN  /\ current_sky.some
             /\ 0 <= t - v
             /\ t - v < SkyValiditySecs
             /\ globals.monster_position.env =
                   IF h >= 21 \/ h < 7 THEN "SLEEPING"
                   ELSE IF h >= 20 \/ h < 8 \/ 4 * nf > NightFactorDen THEN "HOUSE"
                   ELSE "OUTSIDE"

\* C18 as stated: after each tick the monster environment is the one of
\* that very tick, so it changes at the tick at which the night factor
\* passes 0.25 and at the ticks of 20:00, 21:00, 7:00 and 8:00 local time.
C18_EnvFollowsTick ==
    TickApplied
      => LET t == globals.current_time
             h == ParisHour(t)
             nf == NightFactorNum(SolarElevation(t))
         IN  globals.monster_position.env =
               IF h >= 21 \/ h < 7 THEN "SLEEPING"
               ELSE IF h >= 20 \/ h < 8 \/ 4 * nf > NightFactorDen THEN "HOUSE"
               ELSE "OUTSIDE"

\* The morning after the night: the monster is outside again past 8:00
\* local time, more than twenty hours of ticks after the start at noon.
C18_Witness ==
    /\ TickApplied
    /\ globals.current_time - DayStart > 20 * 3600
    /\ ParisHour(globals.current_time) >= 8
    /\ globals.monster_position.env = "OUTSIDE"

(***************************************************************************)
(* C19: when a time request of NtpClient.run fails, the failure is logged  *)
(* and nothing else changes: the client neither stops nor panics, and it   *)
(* goes into the same wait as after a success, so that its next request is *)
(* issued 15 minutes after the failed one came back.                       *)
(***************************************************************************)
C19_FailedRequestKeepsInterval ==
    [][/\ (ntp.pc = "get_time" /\ ntp' /= ntp /\ ntp'.results[Len(ntp'.results)] = "err")
          => /\ ntp'.pc = "sleep"
             /\ ntp'.errors = ntp.errors + 1
             /\ ntp'.context_set = ntp.context_set
             /\ ntp'.first = ntp.first
       /\ (ntp.pc = "sleep" /\ ntp' /= ntp)
          => /\ ntp'.pc = "get_time"
             /\ ntp'.clock = ntp.clock + 1000 * NtpIntervalSecs]_vars

\* A first request failed at once and was logged; a quarter of an hour and
\* the round trip later the second request was made, and it succeeded.
C19_Witness ==
    /\ Len(ntp.results) = 2
    /\ ntp.results = << "err", "ok" >>
    /\ ntp.errors = 1
    /\ ntp.requested[2] - ntp.requested[1] = 20 + 1000 * NtpIntervalSecs
    /\ ntp.context_set

(***************************************************************************)
(* C20: a DNS resolution that fails, by an error or by an empty address    *)
(* list, does not end NtpClient.run: the client is never brought down by   *)
(* it.                                                                     *)
(***************************************************************************)
C20_DnsFailureTransient ==
    ntp.dns \in {"error", "empty"} => ntp.pc /= "panicked"

\* The query returned an empty list, which was logged, and the client
\* panicked on the first address of the list before any time request.
C20_Witness ==
    /\ ntp.dns = "empty"
    /\ ntp.errors = 1
    /\ ntp.pc = "panicked"
    /\ ntp.requested = <<>>

(***************************************************************************)
(* C21: after a successful sync that gave the reference R at the monotonic *)
(* instant m0, the time get_date_time reports at a later monotonic instant *)
(* m is R + (m - m0), to the millisecond the monotonic clock is read at;   *)
(* right after the sync it is R.                                           *)
(***************************************************************************)
C21_ReportedIsReferencePlusElapsed ==
    (timestamp.syncs > 0 /\ timestamp.reported /= -1)
      => Abs(timestamp.reported
               - (timestamp.ts.offset + (timestamp.reported_at - timestamp.m0))) < 1000

\* A sync 2.5 s after boot gave the reference 1 s; asked at that very
\* instant, the client reports 3.5 s: the reference plus the whole uptime.
C21_Witness ==
    /\ timestamp.syncs = 1
    /\ timestamp.ts.offset = 1000000
    /\ timestamp.m0 = 2500000
    /\ timestamp.reported_at = timestamp.m0
    /\ timestamp.reported = timestamp.ts.offset + timestamp.m0

(***************************************************************************)
(* C22: after Timestamp.init(), timestamp_sec() * 1 000 000 +              *)
(* timestamp_subsec_micros() is the instant that init captured (the offset *)
(* plus the monotonic clock in whole milliseconds), the microseconds are   *)
(* in 0..999 999, and both give the same values, however much time passes, *)
(* until init() is called again.                                           *)
(***************************************************************************)
C22_ReadsExposeCapturedInstant ==
    timestamp.init_at /= -1
      => LET captured == timestamp.ts.offset + 1000 * (timestamp.init_at \div 1000)
         IN  /\ timestamp_sec(timestamp.ts) * 1000000
                  + timestamp_subsec_micros(timestamp.ts) = captured
             /\ timestamp_subsec_micros(timestamp.ts) \in 0..999999
             /\ timestamp.sec /= -1
                  => /\ timestamp.sec * 1000000 + timestamp.subsec = captured
                     /\ timestamp.subsec \in 0..999999

\* init() 2.5 s after boot on the reference 1.700123 s captured 4.200123 s;
\* the two parts read after more time has passed are still those.
C22_Witness ==
    /\ timestamp.init_at = 2500000
    /\ timestamp.mono > timestamp.init_at
    /\ timestamp.ts.offset = 1700123
    /\ timestamp.sec = 4
    /\ timestamp.subsec = 200123

(***************************************************************************)
(* C23: for every UTC timestamp, also one earlier than the reference new   *)
(* moon of the orbit, Moon::new gives a phase fraction in [0,1) and an age *)
(* in [0, orbit period).                                                   *)
(***************************************************************************)
C23_PhaseInUnitInterval ==
    moon_call.done
      => /\ moon_call.phase \in 0..99
         /\ moon_call.age \in 0..(OrbitPeriodSecs - 1)

\* 2000-01-01 00:00:00 UTC is five days before the reference new moon: the
\* age is negative, and so is the phase.
C23_Witness ==
    /\ moon_call.done
    /\ moon_call.time = 946684800
    /\ moon_call.age = 946684800 - OrbitOffsetSecs
    /\ moon_call.phase < 0

(***************************************************************************)
(* C24: when UpdateTime recomputes the sky at the Paris local hour h with  *)
(* the night factor nf, the monster's environment becomes SLEEPING if      *)
(* h >= 21 or h < 7, otherwise HOUSE if h >= 20 or h < 8 or nf > 0.25,     *)
(* otherwise OUTSIDE; its position becomes (125,188) exactly when the      *)
(* environment is OUTSIDE and (195,138) otherwise.                         *)
(***************************************************************************)
C24_MonsterRule ==
    [][(UpdateTimeStep /\ current_sky' /= current_sky)
         => LET h == ParisHour(Top.action.time)
                nf == globals'.night_factor
                m == globals'.monster_position
            IN  /\ m.env = IF h >= 21 \/ h < 7 THEN "SLEEPING"
                           ELSE IF h >= 20 \/ h < 8 \/ 4 * nf > NightFactorDen
                                THEN "HOUSE"
                                ELSE "OUTSIDE"
                /\ << m.x, m.y >> = IF m.env = "OUTSIDE" THEN << 125, 188 >>
                                                         ELSE << 195, 138 >>]_vars

\* Between 19:00 and 20:00 local time, the night factor above 0.25 alone has
\* sent the monster into the house.
C24_Witness ==
    /\ TickApplied
    /\ ParisHour(current_sky.version) = 19
    /\ 4 * globals.night_factor > NightFactorDen
    /\ globals.monster_position = [env |-> "HOUSE", x |-> 195, y |-> 138]

C26_BoundaryInsideSelected ==
    LET side == IF sky_call.azimuth_gt_180 THEN 12..SkyLen ELSE 1..11
        i == sky_call.idx + 1
    IN  (/\ sky_call.done
         /\ sky_call.angle < 8000
         /\ \E k \in side : SkyStart[k] = sky_call.angle)
          => /\ sky_call.idx /= -1
             /\ (IF SkyStart[i] < SkyEnd[i] THEN SkyStart[i] ELSE SkyEnd[i])
                   = sky_call.angle

\* Exactly on the horizon on the evening side, where the entry marked sunset
\* starts, the lookup selects the entry before it, which spans 1.0 to 0.5
\* degrees.
C26_Witness ==
    /\ sky_call.done
    /\ sky_call.azimuth_gt_180
    /\ sky_call.angle = 0
    /\ SkyStart[15] = 0
    /\ sky_call.idx = 13
    /\ SkyStart[sky_call.idx + 1] = 100
    /\ SkyEnd[sky_call.idx + 1] = 50

(***************************************************************************)
(* C27: for every elevation the sun reaches over Paris, on either side of  *)
(* the sky, the colour mix factor of get_slint_gradient is in [0,1]: the   *)
(* elevation lies between the midpoints of the two segments that are       *)
(* mixed.                                                                  *)
(***************************************************************************)
C27_MixFactorInUnitInterval ==
    (/\ sky_call.done
     /\ ~sky_call.panic
     /\ sky_call.angle \in (-SolarAmplitude)..SolarAmplitude)
      => LET f == sky_call.mix_factor
         IN  \/ f.den > 0 /\ 0 <= f.num /\ f.num <= f.den
             \/ f.den < 0 /\ f.den <= f.num /\ f.num <= 0

\* At 60 degrees on the morning side the morning entry (20 to 80, midpoint
\* 50) is mixed with the afternoon entry (80 to 1.5, midpoint 40.75): the
\* factor is 10 / -9.25.
C27_Witness ==
    /\ sky_call.done
    /\ ~sky_call.panic
    /\ ~sky_call.azimuth_gt_180
    /\ sky_call.angle = 6000
    /\ sky_call.idx = 10
    /\ sky_call.neighbour = 11
    /\ sky_call.mix_factor = [num |-> 2000, den |-> -1850]

(***************************************************************************)
(* C28: a StartCountDown processed while an earlier countdown has not      *)
(* expired overwrites it: the deadline and the total duration become those *)
(* of the latest StartCountDown, whatever they were; and no other kind of  *)
(* action (UpdateTime, ShowMonster, WifiStateUpdate, TimeOfDayUpdate, the  *)
(* button actions, a composite as such) changes either of them.  Before    *)
(* the first action Controller.run sets the deadline to 0.                 *)
(***************************************************************************)
C28_CountDownLastWriteWins ==
    [][/\ (AtStep("dispatch") /\ Top.action.kind = "StartCountDown" /\ stack' /= stack)
          => /\ globals'.countdown = Top.action.time + Top.action.dur
             /\ globals'.countdown_total_duration = Top.action.dur
       /\ (\/ globals'.countdown /= globals.countdown
           \/ globals'.countdown_total_duration /= globals.countdown_total_duration)
          => \/ ctrlPc = "start"
             \/ AtStep("dispatch") /\ Top.action.kind = "StartCountDown"]_vars

\* The two-minute countdown was started, every other kind of action was
\* processed half a minute into it, and the second StartCountDown replaced
\* it with its own deadline and duration.
C28_Witness ==
    /\ Len(applied) = 8
    /\ applied[1] = StartCountDown(1700042400, ButtonCountDownSecs)
    /\ applied[8] = StartCountDown(1700042430, 255)
    /\ globals.current_time = 1700042430
    /\ globals.current_time < 1700042400 + ButtonCountDownSecs
    /\ globals.countdown = 1700042430 + 255
    /\ globals.countdown_total_duration = 255

(***************************************************************************)
(* C29: NtpClient.run makes no DNS query and no time request before it has *)
(* seen the link up and an IPv4 configuration; while it waits, each poll   *)
(* that fails is followed by a wait of 500 ms and another poll, however    *)
(* many have failed before.                                                *)
(***************************************************************************)
C29_WaitsForLinkAndConfig ==
    /\ [](\/ ntp.pc \in {"link", "wait_config", "config"}
             /\ ntp.dns = "none"
             /\ ntp.requested = <<>>
          \/ ntp.link /\ ntp.config)
    /\ [][(ntp.pc \in {"link", "config"} /\ ntp' /= ntp)
            => IF ntp'.link_polls + ntp'.config_polls
                    = ntp.link_polls + ntp.config_polls
               THEN /\ ntp'.pc /= ntp.pc
                    /\ IF ntp.pc = "link" THEN ntp'.link ELSE ntp'.config
                    /\ ntp'.clock = ntp.clock
               ELSE /\ ntp'.pc = ntp.pc
                    /\ ntp'.clock = ntp.clock + NtpPollMillis]_vars

\* Two polls of the link and two of the configuration failed, 2 s went by,
\* and only then was the name resolved.
C29_Witness ==
    /\ ntp.link_polls = 2
    /\ ntp.config_polls = 2
    /\ ntp.clock = 4 * NtpPollMillis
    /\ ntp.link
    /\ ntp.config
    /\ ntp.dns = "addrs"
    /\ ntp.requested = <<>>

(***************************************************************************)
(* C30: the reference time of the client's context and the first-sample    *)
(* flag change only on a successful time response; a failed request leaves *)
(* both as they are.                                                       *)
(***************************************************************************)
C30_ReferenceOnlyOnSuccess ==
    [][(ntp'.offset /= ntp.offset \/ ntp'.first /= ntp.first)
         => /\ ntp.pc = "get_time"
            /\ Len(ntp'.results) = Len(ntp.results) + 1
            /\ ntp'.results[Len(ntp'.results)] = "ok"]_vars

\* The first request succeeded after 20 ms and the second failed: the
\* reference is still the time the first one gave.
C30_Witness ==
    /\ ntp.results = << "ok", "err" >>
    /\ ntp.requested[1] = 0
    /\ ntp.offset = 1000 * SecsPerDay + 20
    /\ ~ntp.first
    /\ ntp.pc = "sleep"

\* C31: the nanosecond part computed from the 32-bit fraction field of every
\* successful time response lies in 0..999999999 (the largest fraction,
\* 2^32 - 1, gives 999999999; 2^31 gives 500000000 and 1 gives 0), so
\* DateTime::from_timestamp is never handed an out-of-range sub-second part.
C31_NanosInRange ==
    timestamp.syncs > 0 =>
       /\ timestamp.nanos \in 0..999999999
       /\ timestamp.nanos = sec_fraction_nanos(timestamp.fraction)
       /\ (timestamp.fraction = [hi |-> 256, mid |-> 0, lo |-> 0]) => timestamp.nanos = 500000000
       /\ (timestamp.fraction = [hi |-> 0, mid |-> 0, lo |-> 1]) => timestamp.nanos = 0
       /\ timestamp.ts.offset = 1000000 + timestamp.nanos \div 1000

\* The largest fraction field has been converted: 999999999 ns.
C31_Witness ==
    /\ timestamp.syncs > 0
    /\ timestamp.fraction = [hi |-> 511, mid |-> 2047, lo |-> 4095]
    /\ timestamp.nanos = 999999999

\* C32: every processed UpdateTime(t) stores t as the displayed current time,
\* whatever the state of the two caches; a valid sky cache leaves the sky
\* fields, the monster position and the sky cache alone, a valid moon cache
\* leaves the moon image and the moon cache alone, and no other field changes.
C32_UpdateTimeAlwaysSetsTime ==
    [][UpdateTimeStep =>
         LET t == Top.action.time
         IN  /\ globals'.current_time = t
             /\ globals'.wifi_state = globals.wifi_state
             /\ globals'.monster_visibility = globals.monster_visibility
             /\ globals'.countdown = globals.countdown
             /\ globals'.countdown_total_duration = globals.countdown_total_duration
             /\ SkyUpToDate(current_sky, t) =>
                   /\ current_sky' = current_sky
                   /\ globals'.sky_brush = globals.sky_brush
                   /\ globals'.night_factor = globals.night_factor
                   /\ globals'.time_of_day = globals.time_of_day
                   /\ globals'.monster_position = globals.monster_position
             /\ MoonUpToDate(CURRENT_MOON, t) =>
                   /\ CURRENT_MOON' = CURRENT_MOON
                   /\ globals'.moon = globals.moon]_vars

\* An UpdateTime was just processed on a sky cache hit and a moon cache hit:
\* the displayed time is the tick's while both caches keep an older timestamp.
C32_Witness ==
    /\ ctrlPc = "process"
    /\ Len(applied) > 0
    /\ applied[Len(applied)].kind = "UpdateTime"
    /\ globals.current_time = applied[Len(applied)].time
    /\ current_sky.some /\ current_sky.version # globals.current_time
    /\ CURRENT_MOON.some /\ CURRENT_MOON.version # globals.current_time
    /\ SkyUpToDate(current_sky, globals.current_time)

\* C33: is_waning() is true exactly when the phase fraction is above 0.5 and
\* is_waxing() exactly when it is below 0.5 (the age is the phase times the
\* orbit period, so the phase is above 0.5 when twice the age exceeds the
\* period); the two are never true together and is_waning() is the side on
\* which build_image puts the shadow (phase > 0.5).
C33_WaningIffPhaseAboveHalf ==
    moon_call.done =>
       /\ moon_call.waning <=> (2 * moon_call.age > OrbitPeriodSecs)
       /\ moon_call.waxing <=> (2 * moon_call.age < OrbitPeriodSecs)
       /\ ~(moon_call.waning /\ moon_call.waxing)
       /\ moon_call.waning <=>
             (MoonShadowX(moon_call.phase, moon_call.illumination) > 1700)

\* Twenty days into the lunation (phase 0.67, shadow on the phase > 0.5 side)
\* is_waxing() is true and is_waning() is false.
C33_Witness ==
    /\ moon_call.done
    /\ moon_call.age = 20 * SecsPerDay
    /\ moon_call.phase > 50
    /\ moon_call.waxing
    /\ ~moon_call.waning
    /\ MoonShadowX(moon_call.phase, moon_call.illumination) > 1700

\* C34: the cached sky timestamp changes only in an UpdateTime step that
\* recomputes the sky, where it becomes the tick's time; a cache hit leaves
\* it alone, so the validity window does not slide.  With forward 1 Hz ticks
\* the sky is recomputed at the first tick and then exactly at the ticks that
\* come 60 s after the last recomputation, that is at every 60th tick.
C34_SkyRecomputedEvery60thTick ==
    [][/\ current_sky' # current_sky =>
             /\ UpdateTimeStep
             /\ ~SkyUpToDate(current_sky, Top.action.time)
             /\ current_sky' = SomeVersion(Top.action.time)
       /\ UpdateTimeStep =>
             /\ current_sky' # current_sky <=>
                   \/ ~current_sky.some
                   \/ Top.action.time - current_sky.version = SkyValiditySecs
             /\ current_sky'.version =
                   DayStart + SkyValiditySecs
                                * ((Top.action.time - DayStart) \div SkyValiditySecs)]_vars

\* The tick 119 s after the first one was processed on a cache hit: the
\* cache still holds the time of the recomputation at the 60th second.
C34_Witness ==
    /\ TickApplied
    /\ globals.current_time = DayStart + 119
    /\ current_sky = SomeVersion(DayStart + 60)

\* C35: in every state the displayed monster environment and position are
\* the ones the day/night rules give for the cached sky timestamp (the time
\* of the last sky recomputation) and for the night factor of that instant,
\* and the defaults while no sky has been computed; with forward 1 Hz ticks
\* the cached timestamp is less than 60 s behind the displayed time.
C35_MonsterFollowsCachedSky ==
    IF current_sky.some
    THEN LET v == current_sky.version
             hour == ParisHour(v)
             nf == NightFactorNum(SolarElevation(v))
             house == hour >= 20 \/ hour < 8 \/ 4 * nf > NightFactorDen
             sleeping == hour >= 21 \/ hour < 7
         IN  /\ globals.monster_position.env =
                   IF sleeping THEN "SLEEPING" ELSE IF house THEN "HOUSE" ELSE "OUTSIDE"
             /\ globals.monster_position.x = IF house THEN 195 ELSE 125
             /\ globals.monster_position.y = IF house THEN 138 ELSE 188
             /\ globals.night_factor = nf
             /\ globals.current_time - v \in 0..(SkyValiditySecs - 1)
    ELSE globals.monster_position = DefaultGlobals.monster_position

\* The tick of 21:00:00 local time was processed on a cache hit: the monster
\* is still in the house, as the rules say for the cached 20:59:30, while the
\* rule for the tick itself says SLEEPING.
C35_Witness ==
    /\ TickApplied
    /\ ParisHour(globals.current_time) = 21
    /\ ParisHour(current_sky.version) = 20
    /\ globals.monster_position = [env |-> "HOUSE", x |-> 195, y |-> 138]

\* C36: with forward 1 Hz ticks that are all processed, no step takes the
\* displayed monster environment from OUTSIDE to SLEEPING or from SLEEPING
\* to OUTSIDE: HOUSE is displayed in between.
C36_NeverOutsideToSleepingDirectly ==
    [][globals'.monster_position.env # globals.monster_position.env =>
          /\ UpdateTimeStep
          /\ << globals.monster_position.env, globals'.monster_position.env >>
                \notin {<< "OUTSIDE", "SLEEPING" >>, << "SLEEPING", "OUTSIDE" >>}]_vars

\* In the morning the monster has left its bed and is in the house, between
\* 7:00 and 8:00 local time, before it goes outside.
C36_Witness ==
    /\ TickApplied
    /\ ParisHour(current_sky.version) = 7
    /\ globals.current_time - DayStart > 12 * 3600
    /\ globals.monster_position.env = "HOUSE"

\* C37: on both sides of the sky, when get_slint_gradient returns the class
\* NIGHT it returns the night factor 1, and when it returns the class DAY it
\* returns the night factor 0.
C37_ClassAgreesWithNightFactor ==
    sky_call.done /\ ~sky_call.panic
      => /\ sky_call.tod \in {"NIGHT", "TWILIGHT", "DAY"}
         /\ sky_call.tod = "NIGHT" => sky_call.night_factor = NightFactorDen
         /\ sky_call.tod = "DAY" => sky_call.night_factor = 0

\* In the evening, just below -8 degrees, the class has become NIGHT and
\* the night factor has reached 1.
C37_Witness ==
    /\ sky_call.done
    /\ ~sky_call.panic
    /\ sky_call.azimuth_gt_180
    /\ sky_call.angle = -801
    /\ sky_call.tod = "NIGHT"
    /\ sky_call.night_factor = NightFactorDen

\* C38: processing ShowMonster(b) changes only the monster-visibility flag,
\* processing WifiStateUpdate(s) changes only the displayed wifi state, and
\* processing HardwareUserBtnPressed or TouchscreenToggleBtn changes no
\* displayed field; none of the four changes the sky cache or the moon cache.
C38_FourActionsFrame ==
    [][(AtStep("dispatch")
         /\ Top.action.kind \in {"ShowMonster", "WifiStateUpdate",
                                 "HardwareUserBtnPressed", "TouchscreenToggleBtn"})
        => /\ current_sky' = current_sky
           /\ CURRENT_MOON' = CURRENT_MOON
           /\ REFRESH_SIGNAL' = REFRESH_SIGNAL
           /\ globals' =
                CASE Top.action.kind = "ShowMonster"
                       -> [globals EXCEPT !.monster_visibility = Top.action.flag]
                  [] Top.action.kind = "WifiStateUpdate"
                       -> [globals EXCEPT !.wifi_state = Top.action.wifi]
                  [] OTHER -> globals]_vars

\* ShowMonster(TRUE) was just processed after a tick had filled both caches
\* and after the wifi state and the two buttons had been processed: the
\* monster is visible, the wifi state is the one sent, the caches are full.
C38_Witness ==
    /\ ctrlPc = "process"
    /\ Len(applied) = 6
    /\ applied[3].kind = "TouchscreenToggleBtn"
    /\ applied[6].kind = "ShowMonster"
    /\ globals.monster_visibility
    /\ globals.wifi_state = "OK"
    /\ current_sky.some
    /\ CURRENT_MOON.some
    /\ globals.monster_position.env # "DEFAULT"

\* C39: every pass of the render loop ends in one of its three awaits before
\* the next repaint: it suspends there, the only exception being a refresh
\* wait (alone or in the select) that finds a refresh pending, takes it,
\* leaves the Refresh Signal empty and so cannot happen twice in a row; with
\* active animations the pass ends suspended in a Timer of at least 1 ms.
\* While the loop is suspended the Controller can take its next step whenever
\* its own wait is over (its 1 ms Timer, or an action in the channel), so the
\* loop cannot starve it.
C39_RenderLoopAlwaysSuspends ==
    /\ [][renderPc = "draw" =>
            \/ /\ renderPc' \in {"select", "refresh"}
               /\ REFRESH_SIGNAL = <<>>
               /\ pause' = 0
            \/ /\ renderPc' = "timer"
               /\ pause' >= 1
            \/ /\ renderPc' = "draw"
               /\ REFRESH_SIGNAL # <<>>
               /\ REFRESH_SIGNAL' = <<>>
               /\ wokenBy' = "refresh"]_vars
    /\ [][renderPc' = "draw" /\ renderPc # "draw" =>
            \/ renderPc \in {"select", "refresh"} /\ wokenBy' = "refresh"
            \/ renderPc \in {"select", "timer"} /\ wokenBy' = "timer"
            \/ renderPc = "spawned" /\ REFRESH_SIGNAL # <<>>]_vars
    /\ []((/\ renderPc \in {"select", "refresh", "timer"}
            /\ \/ AtStep("timer")
               \/ ctrlPc = "receive" /\ ACTION_CHANNEL # <<>>)
            => ENABLED Controller)
    /\ [](renderPc = "timer" <=> pause >= 1)

\* The render loop is suspended in its frame-pacing Timer, for 1 ms, while a
\* refresh is pending and the Controller has an action waiting in the channel.
C39_Witness ==
    /\ renderPc = "timer"
    /\ pause = 1
    /\ REFRESH_SIGNAL # <<>>
    /\ ACTION_CHANNEL # <<>>
    /\ wokenBy = "none"
=============================================================================
